---- MODULE Spec2Model ----
(***************************************************************************)
(* A model of cargo-dist's planner (cargo-dist/src/tasks.rs): the tag      *)
(* resolver (select_tag and its helpers), the graph builder                *)
(* (DistGraphBuilder) as driven by gather_work, and the build step         *)
(* compiler (compute_build_steps).                                         *)
(*                                                                         *)
(* Handles (ReleaseIdx, ReleaseVariantIdx, BinaryIdx, ArtifactIdx,         *)
(* PackageIdx) are positions in the arenas; the arenas are TLA+ sequences, *)
(* so handle k of the source is position k+1 here.  Option<T> is a         *)
(* sequence of length 0 (None) or 1 (Some).  Strings are TLA+ strings and  *)
(* are formatted, split and compared character by character.               *)
(***************************************************************************)
EXTENDS Integers, Sequences, FiniteSets, TLC

None == <<>>
Some(x) == <<x>>
IsSome(o) == Len(o) = 1
IsNone(o) == Len(o) = 0
Unwrap(o) == o[1]

RangeOf(s) == {s[i] : i \in 1..Len(s)}

(***************************************************************************)
(* Strings (std::str)                                                      *)
(***************************************************************************)
\* the characters of the model's strings in ascending byte order
AsciiOrder == "-./0123456789ABCDEFGHIJKLMNOPQRSTUVWXYZ_abcdefghijklmnopqrstuvwxyz"
Digits == "0123456789"

CharAt(s, i) == SubSeq(s, i, i)
Tail_(s, n) == SubSeq(s, n + 1, Len(s))

\* the position of a one-character string in AsciiOrder (0 when absent)
Ord(c) ==
    IF \E i \in 1..Len(AsciiOrder) : CharAt(AsciiOrder, i) = c
    THEN CHOOSE i \in 1..Len(AsciiOrder) : CharAt(AsciiOrder, i) = c
    ELSE 0

IsDigit(c) == \E i \in 1..Len(Digits) : CharAt(Digits, i) = c
DigitVal(c) == (CHOOSE i \in 1..Len(Digits) : CharAt(Digits, i) = c) - 1
IsAlnumHyphen(c) == Ord(c) > 0 /\ c \notin {".", "/", "_"}

\* str::starts_with / str::ends_with / str::contains
StartsWith(s, p) == Len(p) <= Len(s) /\ SubSeq(s, 1, Len(p)) = p
EndsWith(s, p) == Len(p) <= Len(s) /\ SubSeq(s, Len(s) - Len(p) + 1, Len(s)) = p
Contains(s, p) == \E i \in 1..(Len(s) - Len(p) + 1) : SubSeq(s, i, i + Len(p) - 1) = p

\* str::strip_prefix: Some(rest) or None
StripPrefix(s, p) == IF StartsWith(s, p) THEN Some(Tail_(s, Len(p))) ELSE None

\* str::rsplit_once(c): Some(<<before, after>>) around the last c, or None
RSplitOnce(s, c) ==
    LET hits == {i \in 1..Len(s) : CharAt(s, i) = c}
    IN IF hits = {} THEN None
       ELSE LET k == CHOOSE i \in hits : \A j \in hits : j <= i
            IN Some(<<SubSeq(s, 1, k - 1), Tail_(s, k)>>)

\* str::split_once(c): around the first c
SplitOnce(s, c) ==
    LET hits == {i \in 1..Len(s) : CharAt(s, i) = c}
    IN IF hits = {} THEN None
       ELSE LET k == CHOOSE i \in hits : \A j \in hits : i <= j
            IN Some(<<SubSeq(s, 1, k - 1), Tail_(s, k)>>)

\* Ord for str: bytewise lexicographic order
RECURSIVE StrLess(_, _)
StrLess(a, b) ==
    IF Len(b) = 0 THEN FALSE
    ELSE IF Len(a) = 0 THEN TRUE
    ELSE IF CharAt(a, 1) = CharAt(b, 1) THEN StrLess(Tail_(a, 1), Tail_(b, 1))
    ELSE Ord(CharAt(a, 1)) < Ord(CharAt(b, 1))

\* Ord for Vec<String>
RECURSIVE StrSeqLess(_, _)
StrSeqLess(a, b) ==
    IF Len(b) = 0 THEN FALSE
    ELSE IF Len(a) = 0 THEN TRUE
    ELSE IF a[1] = b[1] THEN StrSeqLess(Tail(a), Tail(b))
    ELSE StrLess(a[1], b[1])

\* a finite set of strings as a sequence in ascending order (BTreeSet<String> iteration)
RECURSIVE SortedStrs(_)
SortedStrs(S) ==
    IF S = {} THEN <<>>
    ELSE LET m == CHOOSE x \in S : \A y \in S \ {x} : StrLess(x, y)
         IN <<m>> \o SortedStrs(S \ {m})

\* Utf8PathBuf::join, ::parent and ::file_name for the relative, normal paths of the model
PathJoin(dir, name) == dir \o "/" \o name
PathParent(p) == Unwrap(RSplitOnce(p, "/"))[1]
PathFileName(p) ==
    LET sp == RSplitOnce(p, "/") IN IF IsSome(sp) THEN Unwrap(sp)[2] ELSE p

(***************************************************************************)
(* semver::Version                                                         *)
(***************************************************************************)
Version(major, minor, patch, pre) ==
    [major |-> major, minor |-> minor, patch |-> patch, pre |-> pre]

\* Display for Version: MAJOR.MINOR.PATCH[-PRE]
VersionToString(v) ==
    ToString(v.major) \o "." \o ToString(v.minor) \o "." \o ToString(v.patch)
        \o (IF v.pre = "" THEN "" ELSE "-" \o v.pre)

\* a numeric identifier: digits only, no leading zero
IsNumeric(s) ==
    /\ Len(s) > 0
    /\ \A i \in 1..Len(s) : IsDigit(CharAt(s, i))
    /\ (Len(s) > 1 => CharAt(s, 1) # "0")

RECURSIVE NumVal(_)
NumVal(s) ==
    IF Len(s) = 0 THEN 0
    ELSE 10 * NumVal(SubSeq(s, 1, Len(s) - 1)) + DigitVal(CharAt(s, Len(s)))

\* an identifier of a prerelease: non-empty, of [0-9A-Za-z-], without a leading
\* zero when all digits
IsPrereleaseIdentifier(head) ==
    /\ Len(head) > 0
    /\ \A i \in 1..Len(head) : IsAlnumHyphen(CharAt(head, i))
    /\ ((\A i \in 1..Len(head) : IsDigit(CharAt(head, i))) => IsNumeric(head))

\* a prerelease string: dot separated identifiers
RECURSIVE IsPrerelease(_)
IsPrerelease(s) ==
    LET Split(sp) ==
            IF IsSome(sp)
            THEN IsPrereleaseIdentifier(Unwrap(sp)[1]) /\ IsPrerelease(Unwrap(sp)[2])
            ELSE IsPrereleaseIdentifier(s)
    IN Split(SplitOnce(s, "."))

\* str::parse::<Version>: Some(version) or None (the Err case); build metadata
\* ('+') is outside the model's alphabet
ParseVersion(s) ==
    LET Parts(major, minor, patch, pre, has_pre) ==
            IF /\ IsNumeric(major) /\ IsNumeric(minor) /\ IsNumeric(patch)
               /\ (has_pre => IsPrerelease(pre))
            THEN Some(Version(NumVal(major), NumVal(minor), NumVal(patch), pre))
            ELSE None
        Patch(major, minor, rest, sp3) ==
            IF IsSome(sp3) THEN Parts(major, minor, Unwrap(sp3)[1], Unwrap(sp3)[2], TRUE)
            ELSE Parts(major, minor, rest, "", FALSE)
        Minor(major, sp2) ==
            IF IsSome(sp2)
            THEN Patch(major, Unwrap(sp2)[1], Unwrap(sp2)[2], SplitOnce(Unwrap(sp2)[2], "-"))
            ELSE None
        Major(sp1) ==
            IF IsSome(sp1) THEN Minor(Unwrap(sp1)[1], SplitOnce(Unwrap(sp1)[2], "."))
            ELSE None
    IN Major(SplitOnce(s, "."))

\* Ord for Version: by major, minor, patch; a prerelease sorts before the release
\* (prereleases of the model are single alphabetic identifiers, ordered as strings)
VersionLess(a, b) ==
    IF a.major # b.major THEN a.major < b.major
    ELSE IF a.minor # b.minor THEN a.minor < b.minor
    ELSE IF a.patch # b.patch THEN a.patch < b.patch
    ELSE IF a.pre = b.pre THEN FALSE
    ELSE IF a.pre = "" THEN FALSE
    ELSE IF b.pre = "" THEN TRUE
    ELSE StrLess(a.pre, b.pre)

(***************************************************************************)
(* Results and errors (DistResult, DistError)                              *)
(***************************************************************************)
Ok(v) == [ok |-> TRUE, val |-> v]
Err(e) == [ok |-> FALSE, err |-> e]

VARIABLES
    workspace,      \* WorkspaceInfo::package_info merged with package_metadata: one record per package
    workspace_config, \* the workspace level DistMetadata and WorkspaceInfo::web_url
    cfg,            \* Config: artifact_mode, targets, installers, announcement_tag, needs_coherent_announcement_tag
    tools,          \* Tools: cargo.host_target, rustup
    pc,             \* where gather_work stands
    it,             \* gather_work's loop positions: the selected package, its Release, the inner index
    triples,        \* gather_work's chosen target triples
    announcing,     \* the result of select_tag
    result,         \* the result of gather_work, once it returned
    precise_builds,         \* DistGraph::precise_builds
    artifact_download_url,  \* DistGraph::artifact_download_url
    announcement_tag,       \* DistGraph::announcement_tag
    announcement_is_prerelease, \* DistGraph::announcement_is_prerelease
    build_steps,    \* DistGraph::build_steps
    artifacts,      \* DistGraph::artifacts
    binaries,       \* DistGraph::binaries
    variants,       \* DistGraph::variants
    releases,       \* DistGraph::releases
    binaries_by_id  \* DistGraphBuilder::binaries_by_id, a set of <<id, BinaryIdx>>

(***************************************************************************)
(* Tag resolver                                                            *)
(***************************************************************************)
PartialAnnouncementTag(tag, version, package, prerelease) ==
    [tag |-> tag, version |-> version, package |-> package, prerelease |-> prerelease]

\* strip_prefix_package: the package with the longest name that is a prefix of
\* input, with the rest of the input; pkgs is the workspace's package list
RECURSIVE strip_prefix_package_from(_, _, _, _)
strip_prefix_package_from(input, pkgs, pkg_id, res) ==
    IF pkg_id > Len(pkgs) THEN res
    ELSE LET rest == StripPrefix(input, pkgs[pkg_id].name)
             next == IF IsNone(rest) THEN res
                     ELSE IF IsSome(res) /\ Len(Unwrap(res)[2]) <= Len(Unwrap(rest)) THEN res
                     ELSE Some(<<pkg_id, Unwrap(rest)>>)
         IN strip_prefix_package_from(input, pkgs, pkg_id + 1, next)

\* strip_prefix_package keeping the first package whose name is a prefix
strip_prefix_package_first(input, pkgs) ==
    LET hits == {i \in 1..Len(pkgs) : StartsWith(input, pkgs[i].name)}
        first == CHOOSE i \in hits : \A j \in hits : i <= j
    IN IF hits = {} THEN None
       ELSE Some(<<first, Tail_(input, Len(pkgs[first].name))>>)

strip_prefix_package(input, pkgs) == strip_prefix_package_from(input, pkgs, 1, None)

\* parse_tag, the package half: the package the tag names (if any) and the
\* part of the tag left for the version, after the "/" form, the fused
\* "package-" form and the optional "v"
tag_package_and_suffix(pkgs, tag) ==
    LET StripV(announcing_package, tag_suffix) ==
            [announcing_package |-> announcing_package,
             tag_suffix |-> IF StartsWith(tag_suffix, "v") THEN Tail_(tag_suffix, 1)
                            ELSE tag_suffix]
        \* the fused `package-vX.Y.Z` form: "Must be followed by a dash to be accepted"
        Fused(tag_suffix, found) ==
            IF IsSome(found) /\ StartsWith(Unwrap(found)[2], "-")
            THEN StripV(Some(Unwrap(found)[1]), Tail_(Unwrap(found)[2], 1))
            ELSE StripV(None, tag_suffix)
        \* the `/` form: the last component of the prefix is exactly a package name
        Exact(tag_suffix, found) ==
            IF IsSome(found) /\ Unwrap(found)[2] = ""
            THEN StripV(Some(Unwrap(found)[1]), tag_suffix)
            ELSE Fused(tag_suffix, strip_prefix_package(tag_suffix, pkgs))
        \* the last "/"-delimited component of the prefix, or the whole prefix
        MaybePackage(prefix, split) == IF IsSome(split) THEN Unwrap(split)[2] ELSE prefix
        Slash(slash) ==
            IF IsSome(slash)
            THEN Exact(Unwrap(slash)[2],
                       strip_prefix_package(
                           MaybePackage(Unwrap(slash)[1], RSplitOnce(Unwrap(slash)[1], "/")),
                           pkgs))
            ELSE Fused(tag, strip_prefix_package(tag, pkgs))
    IN Slash(RSplitOnce(tag, "/"))

\* parse_tag's match on the parsed version, validating the version only for a
\* package of the fused form
parse_tag_version_slash_unvalidated(pkgs, tag, announcing_package, parsed) ==
    IF IsNone(parsed)
    THEN Err([kind |-> "TagVersionParse", tag |-> tag])
    ELSE IF IsSome(announcing_package)
    THEN IF /\ pkgs[Unwrap(announcing_package)].version # Unwrap(parsed)
            /\ IsNone(RSplitOnce(tag, "/"))
         THEN Err([kind |-> "ContradictoryTagVersion", tag |-> tag,
                   package_name |-> pkgs[Unwrap(announcing_package)].name,
                   tag_version |-> Unwrap(parsed),
                   real_version |-> pkgs[Unwrap(announcing_package)].version])
         ELSE Ok(PartialAnnouncementTag(Some(tag), None, announcing_package,
                                        Unwrap(parsed).pre # ""))
    ELSE Ok(PartialAnnouncementTag(Some(tag), Some(Unwrap(parsed)), None,
                                   Unwrap(parsed).pre # ""))

\* parse_tag's match on the parsed version, accepting a tag that names a
\* package and no version
parse_tag_version_package_suffices(pkgs, tag, announcing_package, parsed) ==
    IF IsNone(parsed)
    THEN IF IsSome(announcing_package)
         THEN Ok(PartialAnnouncementTag(Some(tag), None, announcing_package, FALSE))
         ELSE Err([kind |-> "NoTagMatch", tag |-> tag])
    ELSE IF IsSome(announcing_package)
    THEN IF pkgs[Unwrap(announcing_package)].version # Unwrap(parsed)
         THEN Err([kind |-> "ContradictoryTagVersion", tag |-> tag,
                   package_name |-> pkgs[Unwrap(announcing_package)].name,
                   tag_version |-> Unwrap(parsed),
                   real_version |-> pkgs[Unwrap(announcing_package)].version])
         ELSE Ok(PartialAnnouncementTag(Some(tag), None, announcing_package,
                                        Unwrap(parsed).pre # ""))
    ELSE Ok(PartialAnnouncementTag(Some(tag), Some(Unwrap(parsed)), None,
                                   Unwrap(parsed).pre # ""))

\* parse_tag's match on the parsed version, keeping the version of a tag
\* that names a package
parse_tag_version_with_package(pkgs, tag, announcing_package, parsed) ==
    IF IsNone(parsed)
    THEN Err([kind |-> "TagVersionParse", tag |-> tag])
    ELSE IF /\ IsSome(announcing_package)
            /\ pkgs[Unwrap(announcing_package)].version # Unwrap(parsed)
    THEN Err([kind |-> "ContradictoryTagVersion", tag |-> tag,
              package_name |-> pkgs[Unwrap(announcing_package)].name,
              tag_version |-> Unwrap(parsed),
              real_version |-> pkgs[Unwrap(announcing_package)].version])
    ELSE Ok(PartialAnnouncementTag(Some(tag), parsed, announcing_package,
                                   Unwrap(parsed).pre # ""))

\* parse_tag's match on tag_suffix.parse::<Version>() and the test that follows it
parse_tag_version(pkgs, tag, announcing_package, parsed) ==
    IF IsNone(parsed)
    THEN Err([kind |-> "TagVersionParse", tag |-> tag])
    ELSE LET Matched(announcing_version) ==
                 IF IsNone(announcing_package) /\ IsNone(announcing_version)
                 THEN Err([kind |-> "NoTagMatch", tag |-> tag])
                 ELSE Ok(PartialAnnouncementTag(Some(tag), announcing_version,
                                                announcing_package, Unwrap(parsed).pre # ""))
         IN IF IsSome(announcing_package)
            THEN IF pkgs[Unwrap(announcing_package)].version # Unwrap(parsed)
                 THEN Err([kind |-> "ContradictoryTagVersion", tag |-> tag,
                           package_name |-> pkgs[Unwrap(announcing_package)].name,
                           tag_version |-> Unwrap(parsed),
                           real_version |-> pkgs[Unwrap(announcing_package)].version])
                 ELSE Matched(None)
            ELSE Matched(parsed)

\* parse_tag: Ok(PartialAnnouncementTag) or Err(DistError)
parse_tag(pkgs, tag_opt) ==
    LET Parsed(tag, parts) ==
            parse_tag_version(pkgs, tag, parts.announcing_package,
                              ParseVersion(parts.tag_suffix))
    IN IF IsNone(tag_opt) THEN Ok(PartialAnnouncementTag(None, None, None, FALSE))
       ELSE Parsed(Unwrap(tag_opt), tag_package_and_suffix(pkgs, Unwrap(tag_opt)))

\* check_dist_package forgetting the package the tag names
check_dist_package_any_package(pkgs, pkg_id, partial) ==
    LET pkg == pkgs[pkg_id]
        override_publish == IsSome(pkg.dist) /\ Unwrap(pkg.dist)
    IN IF Len(pkg.binaries) = 0 THEN Some("no binaries")
       ELSE IF IsSome(pkg.dist) /\ ~Unwrap(pkg.dist) THEN Some("dist = false")
       ELSE IF ~pkg.publish /\ ~override_publish THEN Some("publish = false")
       ELSE IF IsSome(partial.version) /\ pkg.version # Unwrap(partial.version)
            THEN Some("didn't match tag " \o Unwrap(partial.tag))
       ELSE None

\* check_dist_package letting publish = false win over dist = true
check_dist_package_publish_wins(pkgs, pkg_id, partial) ==
    LET pkg == pkgs[pkg_id]
    IN IF Len(pkg.binaries) = 0 THEN Some("no binaries")
       ELSE IF IsSome(pkg.dist) /\ ~Unwrap(pkg.dist) THEN Some("dist = false")
       ELSE IF ~pkg.publish THEN Some("publish = false")
       ELSE IF IsSome(partial.package) /\ pkg_id # Unwrap(partial.package)
            THEN Some("didn't match tag " \o Unwrap(partial.tag))
       ELSE IF IsSome(partial.version) /\ pkg.version # Unwrap(partial.version)
            THEN Some("didn't match tag " \o Unwrap(partial.tag))
       ELSE None

\* check_dist_package: Some(disabled_reason), or None when the package is to be released
check_dist_package(pkgs, pkg_id, partial) ==
    LET pkg == pkgs[pkg_id]
        override_publish == IsSome(pkg.dist) /\ Unwrap(pkg.dist)
    IN IF Len(pkg.binaries) = 0 THEN Some("no binaries")
       ELSE IF IsSome(pkg.dist) /\ ~Unwrap(pkg.dist) THEN Some("dist = false")
       ELSE IF ~pkg.publish /\ ~override_publish THEN Some("publish = false")
       ELSE IF IsSome(partial.package) /\ pkg_id # Unwrap(partial.package)
            THEN Some("didn't match tag " \o Unwrap(partial.tag))
       ELSE IF IsSome(partial.version) /\ pkg.version # Unwrap(partial.version)
            THEN Some("didn't match tag " \o Unwrap(partial.tag))
       ELSE None

\* select_packages: the (package, binaries) pairs to release, in workspace order
RECURSIVE select_packages_from(_, _, _)
select_packages_from(pkgs, partial, pkg_id) ==
    IF pkg_id > Len(pkgs) THEN <<>>
    ELSE LET disabled_reason == check_dist_package(pkgs, pkg_id, partial)
             rust_binaries == IF IsNone(disabled_reason) THEN pkgs[pkg_id].binaries ELSE <<>>
         IN (IF Len(rust_binaries) > 0 THEN <<<<pkg_id, rust_binaries>>>> ELSE <<>>)
                \o select_packages_from(pkgs, partial, pkg_id + 1)

select_packages(pkgs, partial) == select_packages_from(pkgs, partial, 1)

\* a set of versions in ascending order (BTreeMap<&Version, _> iteration)
RECURSIVE SortedVersions(_)
SortedVersions(S) ==
    IF S = {} THEN <<>>
    ELSE LET m == CHOOSE x \in S : \A y \in S \ {x} : VersionLess(x, y)
         IN <<m>> \o SortedVersions(S \ {m})

\* possible_tags grouping every package of the workspace, selected or not
possible_tags_of_workspace(pkgs, rust_releases) ==
    LET idxs == [i \in 1..Len(pkgs) |-> i]
        keys == SortedVersions({pkgs[idxs[i]].version : i \in 1..Len(idxs)})
    IN [k \in 1..Len(keys) |->
           [version |-> keys[k],
            packages |-> SelectSeq(idxs, LAMBDA p : pkgs[p].version = keys[k])]]

\* possible_tags: the versions of the given packages in ascending order, each
\* with its packages in the order given
possible_tags(pkgs, rust_releases) ==
    LET idxs == [i \in 1..Len(rust_releases) |-> rust_releases[i][1]]
        keys == SortedVersions({pkgs[idxs[i]].version : i \in 1..Len(idxs)})
    IN [k \in 1..Len(keys) |->
           [version |-> keys[k],
            packages |-> SelectSeq(idxs, LAMBDA p : pkgs[p].version = keys[k])]]

NoPackagesHelp == "It appears that you have no packages in your workspace with distable binaries."

RECURSIVE JoinNames(_, _)
JoinNames(pkgs, packages) ==
    IF Len(packages) = 0 THEN ""
    ELSE pkgs[packages[1]].name
            \o (IF Len(packages) > 1 THEN ", " ELSE "")
            \o JoinNames(pkgs, Tail(packages))

\* the options of tag_help naming only the first package of each version
RECURSIVE TagHelpOptions_first_package(_, _)
TagHelpOptions_first_package(pkgs, versions) ==
    IF Len(versions) = 0 THEN ""
    ELSE "--tag=v" \o VersionToString(versions[1].version) \o " will Announce: "
            \o pkgs[versions[1].packages[1]].name \o "\n"
            \o TagHelpOptions_first_package(pkgs, Tail(versions))

\* the "--tag=v<version> will Announce: <names>" lines of tag_help
RECURSIVE TagHelpOptions(_, _)
TagHelpOptions(pkgs, versions) ==
    IF Len(versions) = 0 THEN ""
    ELSE "--tag=v" \o VersionToString(versions[1].version) \o " will Announce: "
            \o JoinNames(pkgs, versions[1].packages) \o "\n"
            \o TagHelpOptions(pkgs, Tail(versions))

\* tag_help: the help text listing the --tag options
tag_help(pkgs, versions, base_suggestion) ==
    IF Len(versions) = 0 THEN NoPackagesHelp
    ELSE LET info == pkgs[versions[1].packages[1]]
             some_tag == "--tag=" \o info.name \o "-v" \o VersionToString(info.version)
         IN base_suggestion \o "\n\n" \o "Here are some options:\n\n"
                \o TagHelpOptions(pkgs, versions) \o "\n"
                \o "you can also request any single package with " \o some_tag \o "\n"

FakeVersion == Version(1, 0, 0, "FAKEVER")

\* select_tag after select_packages, refusing an empty selection only for a
\* coherent announcement
select_tag_of_permissive_empty(pkgs, needs_coherent_announcement_tag, partial, rust_releases) ==
    LET Inferred(versions) ==
            IF Len(versions) = 1
            THEN Ok([tag |-> "v" \o VersionToString(versions[1].version),
                     version |-> Some(versions[1].version),
                     package |-> partial.package,
                     prerelease |-> versions[1].version.pre # "",
                     rust_releases |-> rust_releases])
            ELSE IF needs_coherent_announcement_tag
            THEN Err([kind |-> "TooManyUnrelatedApps",
                      help |-> tag_help(pkgs, versions,
                          "Please either specify --tag, or give them all the same version")])
            ELSE Ok([tag |-> "v1.0.0-FAKEVER", version |-> Some(FakeVersion),
                     package |-> partial.package, prerelease |-> TRUE,
                     rust_releases |-> rust_releases])
    IN IF /\ Len(rust_releases) = 0 /\ IsNone(partial.package)
          /\ needs_coherent_announcement_tag
       THEN Err([kind |-> "NothingToRelease",
                 help |-> tag_help(pkgs,
                     possible_tags(pkgs, select_packages(pkgs, parse_tag(pkgs, None).val)),
                     "You may need to pass the current version as --tag, or need to give all your packages the same version")])
       ELSE IF IsSome(partial.tag)
       THEN Ok([tag |-> Unwrap(partial.tag), version |-> partial.version,
                package |-> partial.package, prerelease |-> partial.prerelease,
                rust_releases |-> rust_releases])
       ELSE Inferred(possible_tags(pkgs, rust_releases))

\* select_tag after select_packages, handing out under the placeholder tag only
\* the packages at the placeholder version
select_tag_of_placeholder_filtered(pkgs, needs_coherent_announcement_tag, partial, rust_releases) ==
    LET Inferred(versions) ==
            IF Len(versions) = 1
            THEN Ok([tag |-> "v" \o VersionToString(versions[1].version),
                     version |-> Some(versions[1].version),
                     package |-> partial.package,
                     prerelease |-> versions[1].version.pre # "",
                     rust_releases |-> rust_releases])
            ELSE IF needs_coherent_announcement_tag
            THEN Err([kind |-> "TooManyUnrelatedApps",
                      help |-> tag_help(pkgs, versions,
                          "Please either specify --tag, or give them all the same version")])
            ELSE Ok([tag |-> "v1.0.0-FAKEVER", version |-> Some(FakeVersion),
                     package |-> partial.package, prerelease |-> TRUE,
                     rust_releases |-> SelectSeq(rust_releases,
                         LAMBDA release : pkgs[release[1]].version = FakeVersion)])
    IN IF Len(rust_releases) = 0 /\ IsNone(partial.package)
       THEN Err([kind |-> "NothingToRelease",
                 help |-> tag_help(pkgs,
                     possible_tags(pkgs, select_packages(pkgs, parse_tag(pkgs, None).val)),
                     "You may need to pass the current version as --tag, or need to give all your packages the same version")])
       ELSE IF IsSome(partial.tag)
       THEN Ok([tag |-> Unwrap(partial.tag), version |-> partial.version,
                package |-> partial.package, prerelease |-> partial.prerelease,
                rust_releases |-> rust_releases])
       ELSE Inferred(possible_tags(pkgs, rust_releases))

\* select_tag after parse_tag and select_packages: the tests on the selection
\* and the inference of the tag
select_tag_of(pkgs, needs_coherent_announcement_tag, partial, rust_releases) ==
    LET Inferred(versions) ==
            IF Len(versions) = 1
            THEN Ok([tag |-> "v" \o VersionToString(versions[1].version),
                     version |-> Some(versions[1].version),
                     package |-> partial.package,
                     prerelease |-> versions[1].version.pre # "",
                     rust_releases |-> rust_releases])
            ELSE IF needs_coherent_announcement_tag
            THEN Err([kind |-> "TooManyUnrelatedApps",
                      help |-> tag_help(pkgs, versions,
                          "Please either specify --tag, or give them all the same version")])
            ELSE Ok([tag |-> "v1.0.0-FAKEVER", version |-> Some(FakeVersion),
                     package |-> partial.package, prerelease |-> TRUE,
                     rust_releases |-> rust_releases])
    IN IF Len(rust_releases) = 0 /\ IsNone(partial.package)
       THEN Err([kind |-> "NothingToRelease",
                 help |-> tag_help(pkgs,
                     possible_tags(pkgs, select_packages(pkgs, parse_tag(pkgs, None).val)),
                     "You may need to pass the current version as --tag, or need to give all your packages the same version")])
       ELSE IF IsSome(partial.tag)
       THEN Ok([tag |-> Unwrap(partial.tag), version |-> partial.version,
                package |-> partial.package, prerelease |-> partial.prerelease,
                rust_releases |-> rust_releases])
       ELSE Inferred(possible_tags(pkgs, rust_releases))

\* select_tag run as if no caller needed a coherent announcement
select_tag_never_coherent(pkgs, tag, needs_coherent_announcement_tag) ==
    LET Parsed(parsed) ==
            IF ~parsed.ok THEN parsed
            ELSE select_tag_of(pkgs, FALSE, parsed.val, select_packages(pkgs, parsed.val))
    IN Parsed(parse_tag(pkgs, tag))

\* select_tag: Ok(AnnouncementTag) or Err(DistError)
select_tag(pkgs, tag, needs_coherent_announcement_tag) ==
    LET Parsed(parsed) ==
            IF ~parsed.ok THEN parsed
            ELSE select_tag_of(pkgs, needs_coherent_announcement_tag, parsed.val,
                               select_packages(pkgs, parsed.val))
    IN Parsed(parse_tag(pkgs, tag))

(***************************************************************************)
(* Configuration enums (config.rs)                                         *)
(***************************************************************************)
\* ZipStyle::ext
ZipStyleExt(zip_style) ==
    CASE zip_style = "Zip" -> ".zip"
      [] zip_style = "Tar(Gzip)" -> ".tar.gz"
      [] zip_style = "Tar(Xzip)" -> ".tar.xz"
      [] zip_style = "Tar(Zstd)" -> ".tar.zstd"
      [] zip_style = "TempDir" -> "_dir"

\* ChecksumStyle::ext
ChecksumStyleExt(checksum) ==
    CASE checksum = "Sha256" -> "sha256"
      [] checksum = "Sha512" -> "sha512"
      [] checksum = "False" -> "false"

TARGET_DIST == "distrib"
PROFILE_DIST == "dist"
X64_MACOS == "x86_64-apple-darwin"
ARM64_MACOS == "aarch64-apple-darwin"

\* DistGraph::dist_dir = target_dir.join(TARGET_DIST)
dist_dir == PathJoin("target", TARGET_DIST)

(***************************************************************************)
(* Graph builder.  The operators take and return the entity store          *)
(* G = [releases, variants, binaries, artifacts].                          *)
(***************************************************************************)
Graph == [releases |-> releases, variants |-> variants,
          binaries |-> binaries, artifacts |-> artifacts]

\* local_artifacts_enabled answering for mode Global as for mode All
local_artifacts_enabled_in_global_mode ==
    CASE cfg.artifact_mode = "Local" -> TRUE
      [] cfg.artifact_mode = "Global" -> TRUE
      [] cfg.artifact_mode = "Host" -> TRUE
      [] cfg.artifact_mode = "All" -> TRUE

local_artifacts_enabled ==
    CASE cfg.artifact_mode = "Local" -> TRUE
      [] cfg.artifact_mode = "Global" -> FALSE
      [] cfg.artifact_mode = "Host" -> TRUE
      [] cfg.artifact_mode = "All" -> TRUE

global_artifacts_enabled ==
    CASE cfg.artifact_mode = "Local" -> FALSE
      [] cfg.artifact_mode = "Global" -> TRUE
      [] cfg.artifact_mode = "Host" -> TRUE
      [] cfg.artifact_mode = "All" -> TRUE

\* the static assets add_release collects for a package
ReleaseStaticAssets(package) ==
    (IF IsSome(package.readme_file)
     THEN <<[kind |-> "Readme", path |-> Unwrap(package.readme_file)]>> ELSE <<>>)
    \o [i \in 1..Len(package.include) |-> [kind |-> "Other", path |-> package.include[i]]]

\* add_release: the store with a new Release for the package
add_release(G, pkg_idx) ==
    LET package_info == workspace[pkg_idx]
        app_name == package_info.name
        id == app_name
    IN [G EXCEPT !.releases = Append(@,
           [app_name |-> app_name,
            version |-> package_info.version,
            id |-> id,
            global_artifacts |-> <<>>,
            bins |-> <<>>,
            targets |-> <<>>,
            variants |-> <<>>,
            windows_archive |-> "Zip",
            unix_archive |-> "Tar(Xzip)",
            static_assets |-> ReleaseStaticAssets(package_info),
            checksum |-> IF IsSome(package_info.checksum)
                         THEN Unwrap(package_info.checksum) ELSE "Sha256"])]

\* add_binary
add_binary(G, to_release, pkg_idx, binary_name) ==
    [G EXCEPT !.releases[to_release].bins = Append(@, <<pkg_idx, binary_name>>)]

\* FastMap::get on binaries_by_id
BinariesByIdGet(id) ==
    IF \E e \in binaries_by_id : e[1] = id
    THEN Some((CHOOSE e \in binaries_by_id : e[1] = id)[2])
    ELSE None

\* the CargoTargetFeatures of a package's binaries
PackageFeatures(package_metadata) ==
    [default_features |-> IF IsSome(package_metadata.default_features)
                          THEN Unwrap(package_metadata.default_features) ELSE TRUE,
     features |-> IF package_metadata.all_features = Some(TRUE)
                  THEN <<"All">>
                  ELSE <<"List", IF IsSome(package_metadata.features)
                                 THEN Unwrap(package_metadata.features) ELSE <<>> >>]

\* the loop of add_variant over the release's bins: the grown binaries arena
\* and the variant's binary handles
RECURSIVE add_variant_binaries(_, _, _, _)
add_variant_binaries(bins, target, all_binaries, handles) ==
    IF Len(bins) = 0 THEN [binaries |-> all_binaries, handles |-> handles]
    ELSE LET pkg_idx == bins[1][1]
             binary_name == bins[1][2]
             package == workspace[pkg_idx]
             id == binary_name \o "-v" \o VersionToString(package.version) \o "-" \o target
             found == BinariesByIdGet(id)
             platform_exe_ext == IF Contains(target, "windows") THEN ".exe" ELSE ""
             binary == [id |-> id,
                        pkg_spec |-> package.name,
                        pkg_idx |-> pkg_idx,
                        name |-> binary_name,
                        file_name |-> binary_name \o platform_exe_ext,
                        target |-> target,
                        copy_exe_to |-> <<>>,
                        copy_symbols_to |-> <<>>,
                        symbols_artifact |-> None,
                        features |-> PackageFeatures(package)]
         IN IF IsSome(found)
            THEN add_variant_binaries(Tail(bins), target, all_binaries,
                                      Append(handles, Unwrap(found)))
            ELSE add_variant_binaries(Tail(bins), target, Append(all_binaries, binary),
                                      Append(handles, Len(all_binaries) + 1))

\* add_variant
add_variant(G, to_release, target) ==
    LET idx == Len(G.variants) + 1
        release == G.releases[to_release]
        id == release.id \o "-" \o target
        added == add_variant_binaries(release.bins, target, G.binaries, <<>>)
    IN [G EXCEPT !.releases[to_release].variants = Append(@, idx),
                 !.releases[to_release].targets = Append(@, target),
                 !.binaries = added.binaries,
                 !.variants = Append(@, [target |-> target,
                                         id |-> id,
                                         local_artifacts |-> <<>>,
                                         binaries |-> added.handles,
                                         static_assets |-> release.static_assets])]

\* add_local_artifact: the new store; the new handle is Len(G.artifacts) + 1
add_local_artifact(G, to_variant, artifact) ==
    [G EXCEPT !.variants[to_variant].local_artifacts = Append(@, Len(G.artifacts) + 1),
              !.artifacts = Append(@, artifact)]

\* add_global_artifact registering the handle before the push moved the arena's end
add_global_artifact_stale_handle(G, to_release, artifact) ==
    [G EXCEPT !.releases[to_release].global_artifacts = Append(@, Len(G.artifacts)),
              !.artifacts = Append(@, artifact)]

\* add_global_artifact
add_global_artifact(G, to_release, artifact) ==
    [G EXCEPT !.releases[to_release].global_artifacts = Append(@, Len(G.artifacts) + 1),
              !.artifacts = Append(@, artifact)]

\* target_symbol_kind: every platform is disabled
target_symbol_kind(target) ==
    IF Contains(target, "windows-msvc") THEN None
    ELSE IF Contains(target, "apple") THEN None
    ELSE None

\* SymbolKind::ext
SymbolKindExt(kind) ==
    CASE kind = "Pdb" -> "pdb" [] kind = "Dsym" -> "dSYM" [] kind = "Dwp" -> "dwp"

\* FastMap::insert on Artifact::required_binaries, a set of <<BinaryIdx, path>>
MapInsert(map, key, value) == {e \in map : e[1] # key} \cup {<<key, value>>}

\* require_binary
require_binary(G, for_artifact, for_variant, binary_idx, dest_path) ==
    LET binary == G.binaries[binary_idx]
        G1 == [G EXCEPT !.binaries[binary_idx].copy_exe_to = Append(@, dest_path)]
        symbol_kind == target_symbol_kind(binary.target)
        G2 == IF IsNone(binary.symbols_artifact) /\ IsSome(symbol_kind)
              THEN LET dest_symbol_name == binary.id \o "." \o SymbolKindExt(Unwrap(symbol_kind))
                       artifact_path == PathJoin(dist_dir, dest_symbol_name)
                       artifact == [id |-> dest_symbol_name,
                                    target_triples |-> <<binary.target>>,
                                    archive |-> None,
                                    file_path |-> artifact_path,
                                    required_binaries |-> {},
                                    kind |-> [type |-> "Symbols", kind |-> Unwrap(symbol_kind)],
                                    checksum |-> None,
                                    is_global |-> FALSE]
                       G1a == add_local_artifact(G1, for_variant, artifact)
                   IN [G1a EXCEPT !.binaries[binary_idx].symbols_artifact = Some(Len(G1.artifacts) + 1),
                                  !.binaries[binary_idx].copy_symbols_to = Append(@, artifact_path)]
              ELSE G1
    IN [G2 EXCEPT !.artifacts[for_artifact].required_binaries = MapInsert(@, binary_idx, dest_path)]

\* make_executable_zip_for_variant: the archive Artifact of a variant and the
\* (binary, destination) pairs it is built from, without touching the store
make_executable_zip_for_variant(G, release_idx, variant_idx) ==
    LET release == G.releases[release_idx]
        variant == G.variants[variant_idx]
        zip_style == IF Contains(variant.target, "windows")
                     THEN release.windows_archive ELSE release.unix_archive
        artifact_dir_name == variant.id
        artifact_dir_path == PathJoin(dist_dir, artifact_dir_name)
        artifact_name == artifact_dir_name \o ZipStyleExt(zip_style)
        artifact_path == PathJoin(dist_dir, artifact_name)
        built_assets == [i \in 1..Len(variant.binaries) |->
                            <<variant.binaries[i],
                              PathJoin(artifact_dir_path, G.binaries[variant.binaries[i]].file_name)>>]
        with_root == IF zip_style = "Zip" THEN None ELSE Some(artifact_dir_name)
    IN [artifact |-> [id |-> artifact_name,
                      target_triples |-> <<variant.target>>,
                      file_path |-> artifact_path,
                      required_binaries |-> {},
                      archive |-> Some([with_root |-> with_root,
                                        dir_path |-> artifact_dir_path,
                                        zip_style |-> zip_style,
                                        static_assets |-> variant.static_assets]),
                      kind |-> [type |-> "ExecutableZip"],
                      checksum |-> None,
                      is_global |-> FALSE],
        built_assets |-> built_assets]

\* add_artifact_checksum recording the arena's last handle before the push
add_artifact_checksum_stale_handle(G, to_variant, artifact_idx, checksum) ==
    LET artifact == G.artifacts[artifact_idx]
        checksum_id == artifact.id \o "." \o ChecksumStyleExt(checksum)
        checksum_path == PathJoin(PathParent(artifact.file_path), checksum_id)
        checksum_artifact == [id |-> checksum_id,
                              kind |-> [type |-> "Checksum",
                                        checksum |-> checksum,
                                        src_path |-> artifact.file_path,
                                        dest_path |-> checksum_path],
                              target_triples |-> artifact.target_triples,
                              archive |-> None,
                              file_path |-> checksum_path,
                              required_binaries |-> {},
                              checksum |-> None,
                              is_global |-> FALSE]
        G1 == add_local_artifact(G, to_variant, checksum_artifact)
    IN [G1 EXCEPT !.artifacts[artifact_idx].checksum = Some(Len(G.artifacts))]

\* add_artifact_checksum
add_artifact_checksum(G, to_variant, artifact_idx, checksum) ==
    LET artifact == G.artifacts[artifact_idx]
        checksum_id == artifact.id \o "." \o ChecksumStyleExt(checksum)
        checksum_path == PathJoin(PathParent(artifact.file_path), checksum_id)
        checksum_artifact == [id |-> checksum_id,
                              kind |-> [type |-> "Checksum",
                                        checksum |-> checksum,
                                        src_path |-> artifact.file_path,
                                        dest_path |-> checksum_path],
                              target_triples |-> artifact.target_triples,
                              archive |-> None,
                              file_path |-> checksum_path,
                              required_binaries |-> {},
                              checksum |-> None,
                              is_global |-> FALSE]
        G1 == add_local_artifact(G, to_variant, checksum_artifact)
    IN [G1 EXCEPT !.artifacts[artifact_idx].checksum = Some(Len(G.artifacts) + 1)]

\* a sequence of require_binary calls for one artifact
RECURSIVE require_binaries(_, _, _, _)
require_binaries(G, for_artifact, for_variant, built_assets) ==
    IF Len(built_assets) = 0 THEN G
    ELSE require_binaries(
             require_binary(G, for_artifact, for_variant, built_assets[1][1], built_assets[1][2]),
             for_artifact, for_variant, Tail(built_assets))

\* the loop of add_executable_zip over the release's variants
RECURSIVE add_executable_zip_variants(_, _, _, _)
add_executable_zip_variants(G, to_release, variant_idxs, checksum) ==
    IF Len(variant_idxs) = 0 THEN G
    ELSE LET variant_idx == variant_idxs[1]
             made == make_executable_zip_for_variant(G, to_release, variant_idx)
             zip_artifact_idx == Len(G.artifacts) + 1
             G1 == add_local_artifact(G, variant_idx, made.artifact)
             G2 == require_binaries(G1, zip_artifact_idx, variant_idx, made.built_assets)
             G3 == IF checksum # "False"
                   THEN add_artifact_checksum(G2, variant_idx, zip_artifact_idx, checksum)
                   ELSE G2
         IN add_executable_zip_variants(G3, to_release, Tail(variant_idxs), checksum)

\* add_executable_zip stopping after the first variant of the release
add_executable_zip_first_variant(G, to_release) ==
    IF ~local_artifacts_enabled THEN G
    ELSE add_executable_zip_variants(G, to_release,
                                     IF Len(G.releases[to_release].variants) = 0 THEN <<>>
                                     ELSE <<G.releases[to_release].variants[1]>>,
                                     G.releases[to_release].checksum)

\* add_executable_zip
add_executable_zip(G, to_release) ==
    IF ~local_artifacts_enabled THEN G
    ELSE add_executable_zip_variants(G, to_release, G.releases[to_release].variants,
                                     G.releases[to_release].checksum)

(***************************************************************************)
(* Installers                                                              *)
(***************************************************************************)
\* the ExecutableZipFragment describing the archive a variant would make
ExecutableZipFragment(G, to_release, variant_idx) ==
    LET made == make_executable_zip_for_variant(G, to_release, variant_idx)
    IN [id |-> made.artifact.id,
        target_triples |-> made.artifact.target_triples,
        zip_style |-> Unwrap(made.artifact.archive).zip_style,
        binaries |-> [i \in 1..Len(made.built_assets) |-> PathFileName(made.built_assets[i][2])]]

\* which variants an installer style skips (the `continue` of each gather loop)
InstallerSkipsTarget(style, target) ==
    CASE style = "Shell" -> Contains(target, "windows")
      [] style = "Homebrew" -> Contains(target, "windows") \/ Contains(target, "linux-gnu")
      [] style = "Powershell" -> ~Contains(target, "windows")
      [] style = "Npm" -> FALSE

\* the fallback decided on has_x64_apple alone
do_rosetta_fallback_whenever_x64(G, to_release) ==
    LET targets == {G.variants[v].target : v \in RangeOf(G.releases[to_release].variants)}
    IN X64_MACOS \in targets

\* has_x64_apple && !has_arm_apple over the release's variants
do_rosetta_fallback(G, to_release) ==
    LET targets == {G.variants[v].target : v \in RangeOf(G.releases[to_release].variants)}
    IN X64_MACOS \in targets /\ ARM64_MACOS \notin targets

\* "Gather up the bundles the installer supports": the fragments, in variant order
RECURSIVE InstallerFragments(_, _, _, _, _)
InstallerFragments(G, to_release, variant_idxs, style, rosetta) ==
    IF Len(variant_idxs) = 0 THEN <<>>
    ELSE LET target == G.variants[variant_idxs[1]].target
             fragment == ExecutableZipFragment(G, to_release, variant_idxs[1])
             arm_fragment == [fragment EXCEPT !.target_triples = <<ARM64_MACOS>>]
             here == IF InstallerSkipsTarget(style, target) THEN <<>>
                     ELSE IF rosetta /\ target = X64_MACOS THEN <<arm_fragment, fragment>>
                     ELSE <<fragment>>
         IN here \o InstallerFragments(G, to_release, Tail(variant_idxs), style, rosetta)

\* the sorted set of the targets the installer did not skip
InstallerTargets(G, to_release, style) ==
    SortedStrs({G.variants[v].target : v \in
        {w \in RangeOf(G.releases[to_release].variants) :
            ~InstallerSkipsTarget(style, G.variants[w].target)}})

InstallerInfo(release, artifact_path, fragments, hint) ==
    [dest_path |-> artifact_path,
     app_name |-> release.app_name,
     app_version |-> VersionToString(release.version),
     base_url |-> Unwrap(artifact_download_url),
     artifacts |-> fragments,
     hint |-> hint]

InstallerArtifact(artifact_name, target_triples, archive, impl, is_global) ==
    [id |-> artifact_name,
     target_triples |-> target_triples,
     archive |-> archive,
     file_path |-> PathJoin(dist_dir, artifact_name),
     required_binaries |-> {},
     checksum |-> None,
     kind |-> [type |-> "Installer", impl |-> impl],
     is_global |-> is_global]

\* add_shell_installer going on without a download URL
add_shell_installer_url_optional(G, to_release) ==
    IF ~global_artifacts_enabled THEN G
    ELSE LET release == G.releases[to_release]
             download_url == IF IsSome(artifact_download_url)
                             THEN Unwrap(artifact_download_url) ELSE ""
             artifact_name == release.id \o "-installer.sh"
             installer_url == download_url \o "/" \o artifact_name
             hint == "curl --proto '=https' --tlsv1.2 -LsSf " \o installer_url \o " | sh"
             fragments == InstallerFragments(G, to_release, release.variants, "Shell",
                                             do_rosetta_fallback(G, to_release))
         IN IF Len(fragments) = 0 THEN G
            ELSE add_global_artifact(G, to_release,
                     InstallerArtifact(artifact_name, InstallerTargets(G, to_release, "Shell"), None,
                         [style |-> "Shell",
                          info |-> [dest_path |-> PathJoin(dist_dir, artifact_name),
                                    app_name |-> release.app_name,
                                    app_version |-> VersionToString(release.version),
                                    base_url |-> download_url,
                                    artifacts |-> fragments,
                                    hint |-> hint]],
                         TRUE))

\* add_shell_installer
add_shell_installer(G, to_release) ==
    IF ~global_artifacts_enabled THEN G
    ELSE IF IsNone(artifact_download_url) THEN G
    ELSE LET release == G.releases[to_release]
             artifact_name == release.id \o "-installer.sh"
             installer_url == Unwrap(artifact_download_url) \o "/" \o artifact_name
             hint == "curl --proto '=https' --tlsv1.2 -LsSf " \o installer_url \o " | sh"
             fragments == InstallerFragments(G, to_release, release.variants, "Shell",
                                             do_rosetta_fallback(G, to_release))
         IN IF Len(fragments) = 0 THEN G
            ELSE add_global_artifact(G, to_release,
                     InstallerArtifact(artifact_name, InstallerTargets(G, to_release, "Shell"), None,
                         [style |-> "Shell",
                          info |-> InstallerInfo(release, PathJoin(dist_dir, artifact_name),
                                                 fragments, hint)],
                         TRUE))

\* the last fragment of the list that is for the target
LastFragmentFor(fragments, target) ==
    LET hits == {i \in 1..Len(fragments) : fragments[i].target_triples = <<target>>}
    IN IF hits = {} THEN None
       ELSE Some(fragments[CHOOSE i \in hits : \A j \in hits : j <= i])

\* add_homebrew_installer
add_homebrew_installer(G, to_release) ==
    IF ~global_artifacts_enabled THEN G
    ELSE IF IsNone(artifact_download_url) THEN G
    ELSE LET release == G.releases[to_release]
             artifact_name == release.id \o ".rb"
             hint == "brew install " \o release.app_name
             fragments == InstallerFragments(G, to_release, release.variants, "Homebrew",
                                             do_rosetta_fallback(G, to_release))
         IN IF Len(fragments) = 0 THEN G
            ELSE add_global_artifact(G, to_release,
                     InstallerArtifact(artifact_name, InstallerTargets(G, to_release, "Homebrew"), None,
                         [style |-> "Homebrew",
                          arm64 |-> LastFragmentFor(fragments, ARM64_MACOS),
                          x86_64 |-> LastFragmentFor(fragments, X64_MACOS),
                          name |-> release.app_name,
                          info |-> InstallerInfo(release, PathJoin(dist_dir, artifact_name),
                                                 fragments, hint)],
                         TRUE))

\* add_powershell_installer registering its artifact with no fragment gathered
add_powershell_installer_without_fragments(G, to_release) ==
    IF ~global_artifacts_enabled THEN G
    ELSE IF IsNone(artifact_download_url) THEN G
    ELSE LET release == G.releases[to_release]
             artifact_name == release.id \o "-installer.ps1"
             installer_url == Unwrap(artifact_download_url) \o "/" \o artifact_name
             hint == "irm " \o installer_url \o " | iex"
             fragments == InstallerFragments(G, to_release, release.variants, "Powershell", FALSE)
         IN add_global_artifact(G, to_release,
                InstallerArtifact(artifact_name, InstallerTargets(G, to_release, "Powershell"), None,
                    [style |-> "Powershell",
                     info |-> InstallerInfo(release, PathJoin(dist_dir, artifact_name),
                                            fragments, hint)],
                    TRUE))

\* add_powershell_installer
add_powershell_installer(G, to_release) ==
    IF ~global_artifacts_enabled THEN G
    ELSE IF IsNone(artifact_download_url) THEN G
    ELSE LET release == G.releases[to_release]
             artifact_name == release.id \o "-installer.ps1"
             installer_url == Unwrap(artifact_download_url) \o "/" \o artifact_name
             hint == "irm " \o installer_url \o " | iex"
             fragments == InstallerFragments(G, to_release, release.variants, "Powershell", FALSE)
         IN IF Len(fragments) = 0 THEN G
            ELSE add_global_artifact(G, to_release,
                     InstallerArtifact(artifact_name, InstallerTargets(G, to_release, "Powershell"), None,
                         [style |-> "Powershell",
                          info |-> InstallerInfo(release, PathJoin(dist_dir, artifact_name),
                                                 fragments, hint)],
                         TRUE))

\* add_npm_installer reads release.bins[0] once it has a download URL and has
\* found no more than one binary: with no binary declared the index is out of
\* bounds and the call panics
npm_installer_panics(G, to_release) ==
    /\ global_artifacts_enabled
    /\ IsSome(artifact_download_url)
    /\ Len(G.releases[to_release].bins) = 0

\* add_npm_installer taking the first binary of however many the release declares
add_npm_installer_first_bin(G, to_release) ==
    IF ~global_artifacts_enabled THEN G
    ELSE IF IsNone(artifact_download_url) THEN G
    ELSE LET release == G.releases[to_release]
             bin == release.bins[1][2]
             npm_package_name == release.app_name
             npm_package_version == VersionToString(release.version)
             dir_name == release.id \o "-npm-package"
             dir_path == PathJoin(dist_dir, dir_name)
             zip_style == "Tar(Gzip)"
             artifact_name == dir_name \o ZipStyleExt(zip_style)
             hint == "npm install " \o npm_package_name \o "@" \o npm_package_version
             fragments == InstallerFragments(G, to_release, release.variants, "Npm", FALSE)
         IN IF Len(fragments) = 0 THEN G
            ELSE add_global_artifact(G, to_release,
                     InstallerArtifact(artifact_name, InstallerTargets(G, to_release, "Npm"),
                         Some([with_root |-> Some("package"),
                               dir_path |-> dir_path,
                               zip_style |-> zip_style,
                               static_assets |-> release.static_assets]),
                         [style |-> "Npm",
                          npm_package_name |-> npm_package_name,
                          npm_package_version |-> npm_package_version,
                          package_dir |-> dir_path,
                          bin |-> bin,
                          info |-> InstallerInfo(release, PathJoin(dist_dir, artifact_name),
                                                 fragments, hint)],
                         TRUE))

\* add_npm_installer
add_npm_installer(G, to_release) ==
    IF ~global_artifacts_enabled THEN G
    ELSE IF IsNone(artifact_download_url) THEN G
    ELSE LET release == G.releases[to_release]
             bin == release.bins[1][2]
             npm_package_name == release.app_name
             npm_package_version == VersionToString(release.version)
             dir_name == release.id \o "-npm-package"
             dir_path == PathJoin(dist_dir, dir_name)
             zip_style == "Tar(Gzip)"
             artifact_name == dir_name \o ZipStyleExt(zip_style)
             hint == "npm install " \o npm_package_name \o "@" \o npm_package_version
             fragments == InstallerFragments(G, to_release, release.variants, "Npm", FALSE)
         IN IF Len(release.bins) > 1 THEN G
            ELSE IF Len(fragments) = 0 THEN G
            ELSE add_global_artifact(G, to_release,
                     InstallerArtifact(artifact_name, InstallerTargets(G, to_release, "Npm"),
                         Some([with_root |-> Some("package"),
                               dir_path |-> dir_path,
                               zip_style |-> zip_style,
                               static_assets |-> release.static_assets]),
                         [style |-> "Npm",
                          npm_package_name |-> npm_package_name,
                          npm_package_version |-> npm_package_version,
                          package_dir |-> dir_path,
                          bin |-> bin,
                          info |-> InstallerInfo(release, PathJoin(dist_dir, artifact_name),
                                                 fragments, hint)],
                         TRUE))

\* the package of the first binary, whatever the packages of the others
msi_package_info_first_binary(G, binary_idxs, artifact_name, package_info) ==
    IF Len(binary_idxs) = 0 THEN Ok(package_info)
    ELSE Ok(Some(<<G.binaries[binary_idxs[1]].pkg_spec, G.binaries[binary_idxs[1]].pkg_idx>>))

\* "Compute which package we're actually building, based on the binaries":
\* Ok(Some(<<pkg_spec, pkg_idx>>)), Ok(None) without binaries, or Err(MultiPackageMsi)
RECURSIVE msi_package_info(_, _, _, _)
msi_package_info(G, binary_idxs, artifact_name, package_info) ==
    IF Len(binary_idxs) = 0 THEN Ok(package_info)
    ELSE LET binary == G.binaries[binary_idxs[1]]
         IN IF IsSome(package_info)
            THEN IF Unwrap(package_info)[1] # binary.pkg_spec
                 THEN Err([kind |-> "MultiPackageMsi", artifact_name |-> artifact_name,
                           spec1 |-> Unwrap(package_info)[1], spec2 |-> binary.pkg_spec])
                 ELSE msi_package_info(G, Tail(binary_idxs), artifact_name, package_info)
            ELSE msi_package_info(G, Tail(binary_idxs), artifact_name,
                                  Some(<<binary.pkg_spec, binary.pkg_idx>>))

\* the loop of add_msi_installer over the release's variants: Ok(store) or Err
RECURSIVE add_msi_installer_variants(_, _, _)
add_msi_installer_variants(G, variant_idxs, checksum) ==
    IF Len(variant_idxs) = 0 THEN Ok(G)
    ELSE LET variant_idx == variant_idxs[1]
             variant == G.variants[variant_idx]
             artifact_name == variant.id \o ".msi"
             dir_path == PathJoin(dist_dir, variant.id \o "_msi")
             package_info == msi_package_info(G, variant.binaries, artifact_name, None)
         IN IF ~Contains(variant.target, "windows")
            THEN add_msi_installer_variants(G, Tail(variant_idxs), checksum)
            ELSE IF ~package_info.ok THEN package_info
            ELSE IF IsNone(package_info.val)
            THEN Err([kind |-> "NoPackageMsi", artifact_name |-> artifact_name])
            ELSE LET installer_artifact ==
                         InstallerArtifact(artifact_name, <<variant.target>>,
                             Some([with_root |-> None,
                                   dir_path |-> dir_path,
                                   zip_style |-> "TempDir",
                                   static_assets |-> <<>>]),
                             [style |-> "Msi",
                              package_dir |-> dir_path,
                              pkg_spec |-> Unwrap(package_info.val)[1],
                              target |-> variant.target,
                              file_path |-> PathJoin(dist_dir, artifact_name)],
                             FALSE)
                     installer_idx == Len(G.artifacts) + 1
                     G1 == add_local_artifact(G, variant_idx, installer_artifact)
                     G2 == require_binaries(G1, installer_idx, variant_idx,
                               [i \in 1..Len(variant.binaries) |->
                                   <<variant.binaries[i],
                                     PathJoin(dir_path, G.binaries[variant.binaries[i]].file_name)>>])
                     G3 == IF checksum # "False"
                           THEN add_artifact_checksum(G2, variant_idx, installer_idx, checksum)
                           ELSE G2
                 IN add_msi_installer_variants(G3, Tail(variant_idxs), checksum)

\* add_msi_installer
add_msi_installer(G, to_release) ==
    IF ~local_artifacts_enabled THEN Ok(G)
    ELSE add_msi_installer_variants(G, G.releases[to_release].variants,
                                    G.releases[to_release].checksum)

\* add_installer: Ok(store) or Err(DistError)
add_installer(G, to_release, installer) ==
    CASE installer = "Shell" -> Ok(add_shell_installer(G, to_release))
      [] installer = "Powershell" -> Ok(add_powershell_installer(G, to_release))
      [] installer = "Npm" -> IF npm_installer_panics(G, to_release)
                              THEN Err([kind |-> "IndexOutOfBounds"])
                              ELSE Ok(add_npm_installer(G, to_release))
      [] installer = "Homebrew" -> Ok(add_homebrew_installer(G, to_release))
      [] installer = "Msi" -> add_msi_installer(G, to_release)

(***************************************************************************)
(* Build step compiler                                                     *)
(***************************************************************************)
\* the steps of one artifact with the archive step ahead of the asset copies
BuildStepsForArtifact_zip_first(artifact, dirs) ==
    (CASE artifact.kind.type = "ExecutableZip" -> <<>>
       [] artifact.kind.type = "Symbols" -> <<>>
       [] artifact.kind.type = "Installer" ->
              <<[type |-> "GenerateInstaller", impl |-> artifact.kind.impl]>>
       [] artifact.kind.type = "Checksum" ->
              <<[type |-> "Checksum", checksum |-> artifact.kind.checksum,
                 src_path |-> artifact.kind.src_path, dest_path |-> artifact.kind.dest_path]>>)
    \o (IF IsSome(artifact.archive)
        THEN LET archive == Unwrap(artifact.archive)
             IN <<[type |-> "Zip",
                   src_path |-> archive.dir_path,
                   dest_path |-> artifact.file_path,
                   with_root |-> archive.with_root,
                   zip_style |-> archive.zip_style]>>
                \o [i \in 1..Len(archive.static_assets) |->
                       [type |-> IF archive.static_assets[i].path \in dirs
                                 THEN "CopyDir" ELSE "CopyFile",
                        src_path |-> archive.static_assets[i].path,
                        dest_path |-> PathJoin(archive.dir_path,
                                               PathFileName(archive.static_assets[i].path))]]
        ELSE <<>>)

\* the steps add_build_steps_for_artifacts pushes for one artifact
BuildStepsForArtifact(artifact, dirs) ==
    (CASE artifact.kind.type = "ExecutableZip" -> <<>>
       [] artifact.kind.type = "Symbols" -> <<>>
       [] artifact.kind.type = "Installer" ->
              <<[type |-> "GenerateInstaller", impl |-> artifact.kind.impl]>>
       [] artifact.kind.type = "Checksum" ->
              <<[type |-> "Checksum", checksum |-> artifact.kind.checksum,
                 src_path |-> artifact.kind.src_path, dest_path |-> artifact.kind.dest_path]>>)
    \o (IF IsSome(artifact.archive)
        THEN LET archive == Unwrap(artifact.archive)
             IN [i \in 1..Len(archive.static_assets) |->
                    [type |-> IF archive.static_assets[i].path \in dirs
                              THEN "CopyDir" ELSE "CopyFile",
                     src_path |-> archive.static_assets[i].path,
                     dest_path |-> PathJoin(archive.dir_path,
                                            PathFileName(archive.static_assets[i].path))]]
                \o <<[type |-> "Zip",
                      src_path |-> archive.dir_path,
                      dest_path |-> artifact.file_path,
                      with_root |-> archive.with_root,
                      zip_style |-> archive.zip_style]>>
        ELSE <<>>)

\* add_build_steps_for_artifacts walking the list from its newest artifact
RECURSIVE add_build_steps_for_artifacts_newest_first(_, _, _)
add_build_steps_for_artifacts_newest_first(arts, steps, dirs) ==
    IF Len(arts) = 0 THEN steps
    ELSE add_build_steps_for_artifacts_newest_first(
             SubSeq(arts, 1, Len(arts) - 1),
             steps \o BuildStepsForArtifact(arts[Len(arts)], dirs), dirs)

\* add_build_steps_for_artifacts
RECURSIVE add_build_steps_for_artifacts(_, _, _)
add_build_steps_for_artifacts(arts, steps, dirs) ==
    IF Len(arts) = 0 THEN steps
    ELSE add_build_steps_for_artifacts(Tail(arts),
                                       steps \o BuildStepsForArtifact(arts[1], dirs), dirs)

\* Ord for CargoTargetFeatures: default_features, then All before List, then the list
FeaturesLess(a, b) ==
    IF a.default_features # b.default_features THEN b.default_features
    ELSE IF a.features[1] # b.features[1] THEN a.features[1] = "All"
    ELSE IF a.features[1] = "All" THEN FALSE
    ELSE StrSeqLess(a.features[2], b.features[2])

\* Ord for the (pkg_spec, features) keys of builds_by_pkg_spec
BuildKeyLess(a, b) ==
    IF a[1] # b[1] THEN StrLess(a[1], b[1]) ELSE FeaturesLess(a[2], b[2])

RECURSIVE SortedBuildKeys(_)
SortedBuildKeys(S) ==
    IF S = {} THEN <<>>
    ELSE LET m == CHOOSE x \in S : \A y \in S \ {x} : BuildKeyLess(x, y)
         IN <<m>> \o SortedBuildKeys(S \ {m})

\* compute_cargo_builds without its "nothing wants this binary" filter
BinariesToBuild_unfiltered(G) ==
    [i \in 1..Len(G.binaries) |-> i]

\* the binaries compute_cargo_builds decides to build, in arena order
BinariesToBuild(G) ==
    SelectSeq([i \in 1..Len(G.binaries) |-> i],
              LAMBDA b : Len(G.binaries[b].copy_exe_to) # 0 \/ Len(G.binaries[b].copy_symbols_to) # 0)

\* the steps of one target with one precise build per binary
CargoBuildsForTarget_per_binary(G, target, bins) ==
    LET rustflags == IF Contains(target, "windows-msvc")
                     THEN " -Ctarget-feature=+crt-static" ELSE ""
        rustup == IF /\ EndsWith(target, "apple-darwin")
                     /\ EndsWith(tools.host_target, "apple-darwin")
                     /\ target # tools.host_target
                     /\ IsSome(tools.rustup)
                  THEN <<[type |-> "Rustup", rustup |-> Unwrap(tools.rustup), target |-> target]>>
                  ELSE <<>>
        cargo(package, features, expected_binaries) ==
            [type |-> "Cargo", target_triple |-> target, package |-> package,
             features |-> features, rustflags |-> rustflags, profile |-> PROFILE_DIST,
             expected_binaries |-> expected_binaries]
    IN rustup \o
       (IF precise_builds
        THEN [k \in 1..Len(bins) |->
                 cargo(<<"Package", G.binaries[bins[k]].pkg_spec>>,
                       G.binaries[bins[k]].features, <<bins[k]>>)]
        ELSE <<cargo(<<"Workspace">>, G.binaries[bins[1]].features, bins)>>)

\* the steps compute_cargo_builds pushes for one target
CargoBuildsForTarget(G, target, bins) ==
    LET rustflags == IF Contains(target, "windows-msvc")
                     THEN " -Ctarget-feature=+crt-static" ELSE ""
        rustup == IF /\ EndsWith(target, "apple-darwin")
                     /\ EndsWith(tools.host_target, "apple-darwin")
                     /\ target # tools.host_target
                     /\ IsSome(tools.rustup)
                  THEN <<[type |-> "Rustup", rustup |-> Unwrap(tools.rustup), target |-> target]>>
                  ELSE <<>>
        keys == SortedBuildKeys({<<G.binaries[b].pkg_spec, G.binaries[b].features>> : b \in RangeOf(bins)})
        cargo(package, features, expected_binaries) ==
            [type |-> "Cargo", target_triple |-> target, package |-> package,
             features |-> features, rustflags |-> rustflags, profile |-> PROFILE_DIST,
             expected_binaries |-> expected_binaries]
    IN rustup \o
       (IF precise_builds
        THEN [k \in 1..Len(keys) |->
                 cargo(<<"Package", keys[k][1]>>, keys[k][2],
                       SelectSeq(bins, LAMBDA b :
                           <<G.binaries[b].pkg_spec, G.binaries[b].features>> = keys[k]))]
        ELSE <<cargo(<<"Workspace">>, G.binaries[bins[1]].features, bins)>>)

RECURSIVE CargoBuildsForTargets(_, _, _)
CargoBuildsForTargets(G, targets, bins) ==
    IF Len(targets) = 0 THEN <<>>
    ELSE CargoBuildsForTarget(G, targets[1],
                              SelectSeq(bins, LAMBDA b : G.binaries[b].target = targets[1]))
            \o CargoBuildsForTargets(G, Tail(targets), bins)

\* compute_cargo_builds
compute_cargo_builds(G) ==
    LET bins == BinariesToBuild(G)
    IN CargoBuildsForTargets(G, SortedStrs({G.binaries[b].target : b \in RangeOf(bins)}), bins)

\* compute_build_steps with the two artifact passes exchanged
compute_build_steps_globals_first(G, dirs) ==
    LET cargo_builds == compute_cargo_builds(G)
        globals == add_build_steps_for_artifacts(
                       SelectSeq(G.artifacts, LAMBDA a : a.is_global), cargo_builds, dirs)
    IN add_build_steps_for_artifacts(SelectSeq(G.artifacts, LAMBDA a : ~a.is_global), globals, dirs)

\* compute_build_steps: the new value of build_steps
compute_build_steps(G, dirs) ==
    LET cargo_builds == compute_cargo_builds(G)
        locals == add_build_steps_for_artifacts(
                      SelectSeq(G.artifacts, LAMBDA a : ~a.is_global), cargo_builds, dirs)
    IN add_build_steps_for_artifacts(SelectSeq(G.artifacts, LAMBDA a : a.is_global), locals, dirs)

(***************************************************************************)
(* gather_work, one action per call it makes                               *)
(***************************************************************************)
vars == <<workspace, workspace_config, cfg, tools, pc, it, triples, announcing, result,
          precise_builds, artifact_download_url, announcement_tag, announcement_is_prerelease,
          build_steps, artifacts, binaries, variants, releases, binaries_by_id>>

config_vars == <<workspace, workspace_config, cfg, tools>>
store_vars == <<artifacts, binaries, variants, releases>>
announcement_vars == <<announcement_tag, announcement_is_prerelease>>

\* the comparison leaving default-features out
packages_with_mismatched_features_ignoring_default ==
    SelectSeq(workspace, LAMBDA package :
        \/ package.features # workspace_config.features
        \/ package.all_features # workspace_config.all_features)

\* the packages whose merged feature settings differ from the workspace's
packages_with_mismatched_features ==
    SelectSeq(workspace, LAMBDA package :
        \/ package.features # workspace_config.features
        \/ package.all_features # workspace_config.all_features
        \/ package.default_features # workspace_config.default_features)

\* DistGraphBuilder::new (called by gather_work): decides precise_builds
New ==
    /\ pc = "new"
    /\ LET mismatched == [i \in 1..Len(packages_with_mismatched_features) |->
                             packages_with_mismatched_features[i].name]
           requires_precise == Len(mismatched) # 0
       IN IF workspace_config.precise_builds = Some(FALSE) /\ requires_precise
          THEN /\ result' = Some(Err([kind |-> "PreciseImpossible", packages |-> mismatched]))
               /\ pc' = "done"
               /\ UNCHANGED precise_builds
          ELSE /\ precise_builds' = IF IsSome(workspace_config.precise_builds)
                                    THEN Unwrap(workspace_config.precise_builds)
                                    ELSE requires_precise
               /\ pc' = "triples"
               /\ UNCHANGED result
    /\ UNCHANGED <<config_vars, store_vars, announcement_vars, it, triples, announcing,
                   artifact_download_url, build_steps, binaries_by_id>>

\* the sorted union of the targets the packages support
all_target_triples ==
    SortedStrs(UNION {RangeOf(workspace[i].targets) : i \in 1..Len(workspace)})

\* gather_work: "Choose which set of target triples we're building for"
ChooseTriples ==
    /\ pc = "triples"
    /\ IF Len(cfg.targets) = 0 /\ cfg.artifact_mode # "Host" /\ Len(all_target_triples) = 0
       THEN /\ result' = Some(Err([kind |-> "NoTargets"]))
            /\ pc' = "done"
            /\ UNCHANGED triples
       ELSE /\ triples' = IF Len(cfg.targets) = 0
                          THEN IF cfg.artifact_mode = "Host"
                               THEN <<tools.host_target>>
                               ELSE all_target_triples
                          ELSE cfg.targets
            /\ pc' = "select_tag"
            /\ UNCHANGED result
    /\ UNCHANGED <<config_vars, store_vars, announcement_vars, it, announcing, precise_builds,
                   artifact_download_url, build_steps, binaries_by_id>>

bypass_package_target_prefs == Len(cfg.targets) = 0 /\ cfg.artifact_mode = "Host"

rust_releases == Unwrap(announcing).val.rust_releases

\* where gather_work goes once the Release of selected package r is complete
AfterRelease(n, r) == IF r < n THEN "add_release" ELSE "announce"

\* gather_work: select_tag and the artifact download URL
SelectTag ==
    LET Announce(selected) ==
            /\ announcing' = Some(selected)
            /\ IF ~selected.ok
               THEN /\ result' = Some(Err(selected.err))
                    /\ pc' = "done"
                    /\ UNCHANGED <<artifact_download_url, it>>
               ELSE /\ artifact_download_url' =
                           IF IsSome(workspace_config.web_url)
                           THEN Some(Unwrap(workspace_config.web_url) \o "/releases/download/"
                                         \o selected.val.tag)
                           ELSE artifact_download_url
                    /\ pc' = AfterRelease(Len(selected.val.rust_releases), 0)
                    /\ it' = [r |-> 1, release |-> 0, k |-> 1]
                    /\ UNCHANGED result
    IN /\ pc = "select_tag"
       /\ Announce(select_tag(workspace, cfg.announcement_tag,
                               cfg.needs_coherent_announcement_tag))
       /\ UNCHANGED <<config_vars, store_vars, announcement_vars, triples, precise_builds,
                      build_steps, binaries_by_id>>

SetStore(G) ==
    /\ releases' = G.releases
    /\ variants' = G.variants
    /\ binaries' = G.binaries
    /\ artifacts' = G.artifacts

\* gather_work: graph.add_release for the package
AddRelease ==
    /\ pc = "add_release"
    /\ SetStore(add_release(Graph, rust_releases[it.r][1]))
    /\ it' = [it EXCEPT !.release = Len(releases) + 1, !.k = 1]
    /\ pc' = "add_binary"
    /\ UNCHANGED <<config_vars, announcement_vars, triples, announcing, result, precise_builds,
                   artifact_download_url, build_steps, binaries_by_id>>

\* gather_work: graph.add_binary for the next binary
AddBinary ==
    /\ pc = "add_binary"
    /\ LET pkg_idx == rust_releases[it.r][1]
           bins == rust_releases[it.r][2]
       IN /\ SetStore(add_binary(Graph, it.release, pkg_idx, bins[it.k]))
          /\ IF it.k < Len(bins)
             THEN /\ it' = [it EXCEPT !.k = @ + 1]
                  /\ pc' = "add_binary"
             ELSE /\ it' = [it EXCEPT !.k = 1]
                  /\ pc' = "add_variant"
    /\ UNCHANGED <<config_vars, announcement_vars, triples, announcing, result, precise_builds,
                   artifact_download_url, build_steps, binaries_by_id>>

\* gather_work: the next target of the variant loop, graph.add_variant unless
\* the package does not support the target
AddVariant ==
    /\ pc = "add_variant"
    /\ LET package_config == workspace[rust_releases[it.r][1]]
           target == triples[it.k]
           use_target == \/ bypass_package_target_prefs
                         \/ \E i \in 1..Len(package_config.targets) : package_config.targets[i] = target
       IN /\ IF use_target
             THEN SetStore(add_variant(Graph, it.release, target))
             ELSE UNCHANGED store_vars
          /\ IF it.k < Len(triples)
             THEN /\ it' = [it EXCEPT !.k = @ + 1]
                  /\ pc' = "add_variant"
             ELSE /\ it' = [it EXCEPT !.k = 1]
                  /\ pc' = "add_executable_zip"
    /\ UNCHANGED <<config_vars, announcement_vars, triples, announcing, result, precise_builds,
                   artifact_download_url, build_steps, binaries_by_id>>

\* the installers gather_work loops over for the current package
installers ==
    IF Len(cfg.installers) = 0 THEN workspace[rust_releases[it.r][1]].installers
    ELSE cfg.installers

\* gather_work: graph.add_executable_zip(release)
AddExecutableZip ==
    /\ pc = "add_executable_zip"
    /\ SetStore(add_executable_zip(Graph, it.release))
    /\ IF Len(installers) = 0
       THEN /\ pc' = AfterRelease(Len(rust_releases), it.r)
            /\ it' = [it EXCEPT !.r = @ + 1, !.k = 1]
       ELSE /\ pc' = "add_installer"
            /\ it' = [it EXCEPT !.k = 1]
    /\ UNCHANGED <<config_vars, announcement_vars, triples, announcing, result, precise_builds,
                   artifact_download_url, build_steps, binaries_by_id>>

\* gather_work: the next installer of the installer loop, graph.add_installer
\* unless the package does not support the installer
AddInstaller ==
    /\ pc = "add_installer"
    /\ LET package_config == workspace[rust_releases[it.r][1]]
           installer == installers[it.k]
           use_installer == \E i \in 1..Len(package_config.installers) :
                                package_config.installers[i] = installer
           added == IF use_installer THEN add_installer(Graph, it.release, installer)
                    ELSE Ok(Graph)
       IN IF ~added.ok
          THEN /\ result' = Some(Err(added.err))
               /\ pc' = "done"
               /\ UNCHANGED <<store_vars, it>>
          ELSE /\ SetStore(added.val)
               /\ UNCHANGED result
               /\ IF it.k < Len(installers)
                  THEN /\ it' = [it EXCEPT !.k = @ + 1]
                       /\ pc' = "add_installer"
                  ELSE /\ it' = [it EXCEPT !.r = @ + 1, !.k = 1]
                       /\ pc' = AfterRelease(Len(rust_releases), it.r)
    /\ UNCHANGED <<config_vars, announcement_vars, triples, announcing, precise_builds,
                   artifact_download_url, build_steps, binaries_by_id>>

\* gather_work: graph.compute_announcement_info(&announcing)
ComputeAnnouncementInfo ==
    /\ pc = "announce"
    /\ announcement_tag' = Some(Unwrap(announcing).val.tag)
    /\ announcement_is_prerelease' = Unwrap(announcing).val.prerelease
    /\ pc' = "build_steps"
    /\ UNCHANGED <<config_vars, store_vars, it, triples, announcing, result, precise_builds,
                   artifact_download_url, build_steps, binaries_by_id>>

\* gather_work: graph.compute_build_steps()
ComputeBuildSteps ==
    /\ pc = "build_steps"
    /\ build_steps' = compute_build_steps(Graph, workspace_config.dirs)
    /\ pc' = "return"
    /\ UNCHANGED <<config_vars, store_vars, announcement_vars, it, triples, announcing, result,
                   precise_builds, artifact_download_url, binaries_by_id>>

\* gather_work: Ok(graph.inner)
Return ==
    /\ pc = "return"
    /\ result' = Some(Ok("DistGraph"))
    /\ pc' = "done"
    /\ UNCHANGED <<config_vars, store_vars, announcement_vars, it, triples, announcing,
                   precise_builds, artifact_download_url, build_steps, binaries_by_id>>

(***************************************************************************)
(* Inputs                                                                  *)
(***************************************************************************)
MaxPackages == 2        \* packages in the workspace of a planning run
MaxTargets == 2         \* length of the explicit target list (--target)
MaxInstallers == 1      \* length of the explicit installer list (--installer)
MaxMajor == 2           \* major versions of the packages and tags of the tag resolver

SeqsUpTo(S, n) == UNION {[1..k -> S] : k \in 0..n}

WINDOWS_MSVC == "x86_64-pc-windows-msvc"
LINUX_GNU == "x86_64-unknown-linux-gnu"
\* the targets and installers an explicit --target / --installer list draws from
TargetPool == {ARM64_MACOS, WINDOWS_MSVC}
InstallerPool == {"Shell", "Npm", "Msi"}
AllTargets == <<ARM64_MACOS, X64_MACOS, WINDOWS_MSVC, LINUX_GNU>>
AllInstallers == <<"Shell", "Powershell", "Npm", "Homebrew", "Msi">>
ArtifactModes == {"Local", "Global", "Host", "All"}

\* a package of the workspace: axoproject's PackageInfo with the package's
\* DistMetadata after merge_workspace_config
Package(name, version, bins) ==
    [name |-> name, version |-> version, binaries |-> bins,
     publish |-> TRUE, dist |-> None,
     targets |-> AllTargets, installers |-> AllInstallers,
     checksum |-> None, readme_file |-> None, include |-> <<>>,
     features |-> None, all_features |-> None, default_features |-> None]

WorkspaceConfig(precise, web_url) ==
    [precise_builds |-> precise, web_url |-> web_url,
     features |-> None, all_features |-> None, default_features |-> None,
     dirs |-> {"assets"}]

V100 == Version(1, 0, 0, "")
V200 == Version(2, 0, 0, "")

\* the workspaces of the planning runs: the first n packages of a roster
RosterShared ==
    <<[Package("app", V100, <<"app", "helper">>) EXCEPT !.readme_file = Some("README.md")],
      [Package("tool", V100, <<"tool", "helper">>) EXCEPT !.include = <<"assets">>],
      Package("extra", V200, <<"extra">>)>>
RosterMixed ==
    <<[Package("app", V100, <<"app">>) EXCEPT
           !.checksum = Some("False"), !.readme_file = Some("README.md")],
      [Package("tool", V200, <<"tool", "helper">>) EXCEPT
           !.targets = <<WINDOWS_MSVC>>, !.installers = <<"Msi", "Powershell">>,
           !.features = Some(<<"cli">>)],
      Package("extra", V100, <<"extra", "helper">>)>>
Rosters == {RosterShared, RosterMixed}

REPO_URL == "https://github.com/o/r"

\* where a planning run happens: the host's tools, the workspace's repository
\* URL, and whether the caller needs a coherent announcement tag
Environments ==
    {[tools |-> [host_target |-> X64_MACOS, rustup |-> Some("rustup")],
      web_url |-> Some(REPO_URL), needs_coherent_announcement_tag |-> TRUE],
     [tools |-> [host_target |-> LINUX_GNU, rustup |-> None],
      web_url |-> None, needs_coherent_announcement_tag |-> FALSE]}

InitStore ==
    /\ it = [r |-> 0, release |-> 0, k |-> 0]
    /\ announcing = None
    /\ result = None
    /\ precise_builds = FALSE
    /\ artifact_download_url = None
    /\ announcement_tag = None
    /\ announcement_is_prerelease = FALSE
    /\ build_steps = <<>>
    /\ artifacts = <<>>
    /\ binaries = <<>>
    /\ variants = <<>>
    /\ releases = <<>>
    /\ binaries_by_id = {}

\* the state gather_work starts from, for every input of the planning runs
Init ==
    /\ \E roster \in Rosters, n \in 1..MaxPackages :
           workspace = SubSeq(roster, 1, IF n <= Len(roster) THEN n ELSE Len(roster))
    /\ \E env \in Environments :
           /\ workspace_config = WorkspaceConfig(None, env.web_url)
           /\ tools = env.tools
           /\ cfg \in [artifact_mode : ArtifactModes,
                       targets : SeqsUpTo(TargetPool, MaxTargets),
                       installers : SeqsUpTo(InstallerPool, MaxInstallers),
                       announcement_tag : {None},
                       needs_coherent_announcement_tag : {env.needs_coherent_announcement_tag}]
    /\ pc = "new"
    /\ triples = <<>>
    /\ InitStore

Next ==
    \/ New
    \/ ChooseTriples
    \/ SelectTag
    \/ AddRelease
    \/ AddBinary
    \/ AddVariant
    \/ AddExecutableZip
    \/ AddInstaller
    \/ ComputeAnnouncementInfo
    \/ ComputeBuildSteps
    \/ Return

Spec == Init /\ [][Next]_vars

(***************************************************************************)
(* The tag resolver on its own: gather_work stands before select_tag, for  *)
(* every workspace and tag of the pools below                              *)
(***************************************************************************)
TagNames == {"a", "a-v1"}
TagVersions == {Version(m, 0, 0, "") : m \in 1..MaxMajor} \cup {Version(1, 0, 0, "rc")}

\* what decides whether a package is distable: binaries, dist, publish
TagProfiles(name) ==
    {[binaries |-> <<name>>, dist |-> None, publish |-> TRUE],
     [binaries |-> <<>>, dist |-> None, publish |-> TRUE],
     [binaries |-> <<name>>, dist |-> None, publish |-> FALSE],
     [binaries |-> <<name, "helper">>, dist |-> Some(TRUE), publish |-> FALSE],
     [binaries |-> <<name>>, dist |-> Some(FALSE), publish |-> TRUE]}

\* the packages of a name: every profile for "a", the profiles with the
\* default dist and publish for the others
TagPackagesNamed(name) ==
    {[Package(name, version, profile.binaries) EXCEPT
          !.dist = profile.dist, !.publish = profile.publish] :
        version \in TagVersions,
        profile \in {q \in TagProfiles(name) : name = "a" \/ (q.publish /\ q.dist = None)}}

TagPackages == UNION {TagPackagesNamed(n) : n \in TagNames}

\* a package no tag of the pool names
Bystander == Package("b", V100, <<"b">>)

\* one or two packages, with or without the bystander after them; a workspace
\* has no two packages of one name
TagWorkspaces ==
    LET named == {w \in UNION {[1..n -> TagPackages] : n \in 1..2} :
                     \A i, j \in 1..Len(w) : w[i].name = w[j].name => i = j}
    IN named \cup {Append(w, Bystander) : w \in named}

\* the version part of a tag: a version of the pool, or something that is none
TagVersionStrings == {VersionToString(v) : v \in TagVersions} \cup {"x"}

TagPool ==
    {None}
    \cup {Some(vs) : vs \in TagVersionStrings}
    \cup {Some("v" \o vs) : vs \in TagVersionStrings}
    \cup {Some(n \o "-v" \o vs) : n \in TagNames, vs \in TagVersionStrings}
    \cup {Some(n \o "/v" \o vs) : n \in TagNames, vs \in TagVersionStrings}
    \cup {Some("releases/" \o n \o "/" \o vs) : n \in TagNames, vs \in TagVersionStrings}

InitTag ==
    /\ workspace \in TagWorkspaces
    /\ workspace_config = WorkspaceConfig(None, Some(REPO_URL))
    /\ cfg \in [artifact_mode : {"Host"},
                targets : {<<>>},
                installers : {<<>>},
                announcement_tag : TagPool,
                needs_coherent_announcement_tag : BOOLEAN]
    /\ tools = [host_target |-> LINUX_GNU, rustup |-> None]
    /\ pc = "select_tag"
    /\ triples = <<tools.host_target>>
    /\ InitStore

NextTag == SelectTag

SpecTag == InitTag /\ [][NextTag]_vars

(***************************************************************************)
(* The graph builder on its own: its operations in any order and with any  *)
(* arguments, until compute_build_steps freezes the store                  *)
(***************************************************************************)
MaxStore == 5           \* entities in the store up to which the builder is called again

RECURSIVE DeclaredBins(_)
DeclaredBins(rs) == IF Len(rs) = 0 THEN 0 ELSE Len(rs[1].bins) + DeclaredBins(Tail(rs))

\* the entities of the store: releases, their declared binaries, variants, artifacts
StoreSize == Len(releases) + DeclaredBins(releases) + Len(variants) + Len(artifacts)

builder_frame == <<config_vars, announcement_vars, it, triples, announcing, precise_builds,
                   artifact_download_url, binaries_by_id>>

CallAddRelease ==
    /\ pc = "builder" /\ StoreSize < MaxStore
    /\ \E pkg_idx \in 1..Len(workspace) : SetStore(add_release(Graph, pkg_idx))
    /\ UNCHANGED <<builder_frame, pc, result, build_steps>>

CallAddBinary ==
    /\ pc = "builder" /\ StoreSize < MaxStore
    /\ \E to_release \in 1..Len(releases), pkg_idx \in 1..Len(workspace) :
           \E binary_name \in RangeOf(workspace[pkg_idx].binaries) :
               SetStore(add_binary(Graph, to_release, pkg_idx, binary_name))
    /\ UNCHANGED <<builder_frame, pc, result, build_steps>>

CallAddVariant ==
    /\ pc = "builder" /\ StoreSize < MaxStore
    /\ \E to_release \in 1..Len(releases), target \in {X64_MACOS, WINDOWS_MSVC} :
           SetStore(add_variant(Graph, to_release, target))
    /\ UNCHANGED <<builder_frame, pc, result, build_steps>>

CallAddExecutableZip ==
    /\ pc = "builder" /\ StoreSize < MaxStore
    /\ \E to_release \in 1..Len(releases) : SetStore(add_executable_zip(Graph, to_release))
    /\ UNCHANGED <<builder_frame, pc, result, build_steps>>

\* add_installer; an error (or the panic) ends the run and drops the builder
CallAddInstaller ==
    LET Added(added) ==
            IF added.ok
            THEN SetStore(added.val) /\ UNCHANGED <<pc, result>>
            ELSE /\ result' = Some(Err(added.err))
                 /\ pc' = "done"
                 /\ UNCHANGED store_vars
    IN /\ pc = "builder" /\ StoreSize < MaxStore
       /\ \E to_release \in 1..Len(releases), installer \in RangeOf(AllInstallers) :
              Added(add_installer(Graph, to_release, installer))
       /\ UNCHANGED <<builder_frame, build_steps>>

\* compute_build_steps extending the step list it finds
CallComputeBuildSteps_extending ==
    /\ pc \in {"builder", "frozen"}
    /\ build_steps' = build_steps \o compute_build_steps(Graph, workspace_config.dirs)
    /\ pc' = "frozen"
    /\ UNCHANGED <<builder_frame, store_vars, result>>

\* compute_build_steps, which may be run again on the store it froze
CallComputeBuildSteps ==
    /\ pc \in {"builder", "frozen"}
    /\ build_steps' = compute_build_steps(Graph, workspace_config.dirs)
    /\ pc' = "frozen"
    /\ UNCHANGED <<builder_frame, store_vars, result>>

\* the builder after DistGraphBuilder::new, with or without the download URL
\* gather_work computes before its first add_release: every artifact enabled
\* with and without the URL, local artifacts alone, global artifacts alone
InitBuilder ==
    /\ workspace = <<Package("app", V100, <<"app">>),
                     [Package("tool", V200, <<"tool">>) EXCEPT !.checksum = Some("False")]>>
    /\ workspace_config = WorkspaceConfig(None, Some(REPO_URL))
    /\ \E env \in {<<"All", Some(REPO_URL \o "/releases/download/v1.0.0")>>,
                    <<"All", None>>, <<"Local", None>>,
                    <<"Global", Some(REPO_URL \o "/releases/download/v1.0.0")>>} :
           /\ cfg = [artifact_mode |-> env[1], targets |-> <<>>, installers |-> <<>>,
                     announcement_tag |-> None, needs_coherent_announcement_tag |-> FALSE]
           /\ artifact_download_url = env[2]
    /\ tools = [host_target |-> LINUX_GNU, rustup |-> None]
    /\ pc = "builder"
    /\ triples = <<>>
    /\ it = [r |-> 0, release |-> 0, k |-> 0]
    /\ announcing = None
    /\ result = None
    /\ precise_builds = FALSE
    /\ announcement_tag = None
    /\ announcement_is_prerelease = FALSE
    /\ build_steps = <<>>
    /\ artifacts = <<>>
    /\ binaries = <<>>
    /\ variants = <<>>
    /\ releases = <<>>
    /\ binaries_by_id = {}

NextBuilder ==
    \/ CallAddRelease
    \/ CallAddBinary
    \/ CallAddVariant
    \/ CallAddExecutableZip
    \/ CallAddInstaller
    \/ CallComputeBuildSteps

SpecBuilder == InitBuilder /\ [][NextBuilder]_vars

(***************************************************************************)
(* DistGraphBuilder::new on its own, for every feature configuration of    *)
(* the workspace and of its packages                                       *)
(***************************************************************************)
\* the feature settings a manifest can give: features, all-features, default-features
FeatureSettings ==
    [features : {None, Some(<<"cli">>)},
     all_features : {None, Some(TRUE)},
     default_features : {None, Some(FALSE)}]

\* merge_workspace_config on the feature settings: what the package leaves
\* unset is taken from the workspace
merge_workspace_config(package, workspace_metadata) ==
    [package EXCEPT
        !.features = IF IsNone(@) THEN workspace_metadata.features ELSE @,
        !.all_features = IF IsNone(@) THEN workspace_metadata.all_features ELSE @,
        !.default_features = IF IsNone(@) THEN workspace_metadata.default_features ELSE @]

NewRoster ==
    <<Package("app", V100, <<"app">>), Package("tool", V100, <<"tool">>),
      Package("extra", V200, <<"extra">>)>>

InitNew ==
    /\ \E precise \in {None, Some(TRUE), Some(FALSE)}, shared \in FeatureSettings :
           /\ workspace_config =
                  [WorkspaceConfig(precise, Some(REPO_URL)) EXCEPT
                       !.features = shared.features,
                       !.all_features = shared.all_features,
                       !.default_features = shared.default_features]
           /\ \E n \in 1..MaxPackages :
                  \E own \in [1..(IF n <= Len(NewRoster) THEN n ELSE Len(NewRoster))
                                  -> FeatureSettings] :
                      workspace = [k \in DOMAIN own |->
                          merge_workspace_config(
                              [NewRoster[k] EXCEPT !.features = own[k].features,
                                                   !.all_features = own[k].all_features,
                                                   !.default_features = own[k].default_features],
                              shared)]
    /\ cfg = [artifact_mode |-> "Host", targets |-> <<>>, installers |-> <<>>,
              announcement_tag |-> None, needs_coherent_announcement_tag |-> TRUE]
    /\ tools = [host_target |-> LINUX_GNU, rustup |-> None]
    /\ pc = "new"
    /\ triples = <<>>
    /\ InitStore

NextNew == New

SpecNew == InitNew /\ [][NextNew]_vars

(***************************************************************************)
(* Properties of the planner                                               *)
(***************************************************************************)
\* C1: add_variant returns the existing handle when a declared binary's
\* derived id equals the id of a Binary already in the store, so no two
\* Binary entities of the store have the same id.
C1_NoTwoBinariesShareAnId ==
    \A i, j \in 1..Len(binaries) : binaries[i].id = binaries[j].id => i = j

IsCompileStep(step) == step.type \in {"Cargo", "Rustup"}

\* step is one of the steps that package the artifact
StepPackages(step, artifact) ==
    \/ /\ step.type = "GenerateInstaller"
       /\ artifact.kind.type = "Installer"
       /\ step.impl = artifact.kind.impl
    \/ /\ step.type = "Checksum"
       /\ artifact.kind.type = "Checksum"
       /\ step.dest_path = artifact.kind.dest_path
    \/ /\ step.type = "Zip"
       /\ IsSome(artifact.archive)
       /\ step.dest_path = artifact.file_path
    \/ /\ step.type \in {"CopyFile", "CopyDir"}
       /\ IsSome(artifact.archive)
       /\ PathParent(step.dest_path) = Unwrap(artifact.archive).dir_path

StepsOfArtifacts(global) ==
    {i \in 1..Len(build_steps) :
        \E a \in 1..Len(artifacts) :
            artifacts[a].is_global = global /\ StepPackages(build_steps[i], artifacts[a])}

\* C2: in the computed build steps every Cargo and Rustup step precedes every
\* packaging step, and every step of a local artifact precedes every step of
\* a global artifact.
C2_BuildStepOrdering ==
    /\ \A i, j \in 1..Len(build_steps) :
           IsCompileStep(build_steps[i]) /\ ~IsCompileStep(build_steps[j]) => i < j
    /\ \A i \in StepsOfArtifacts(FALSE), j \in StepsOfArtifacts(TRUE) : i < j

C2_Witness ==
    /\ pc = "return"
    /\ \E i \in 1..Len(build_steps) : build_steps[i].type = "Rustup"
    /\ \E i \in 1..Len(build_steps) : build_steps[i].type = "Cargo"
    /\ StepsOfArtifacts(FALSE) # {}
    /\ StepsOfArtifacts(TRUE) # {}

ExpectedByACargoStep(b) ==
    \E i \in 1..Len(build_steps) :
        /\ build_steps[i].type = "Cargo"
        /\ \E k \in 1..Len(build_steps[i].expected_binaries) :
               build_steps[i].expected_binaries[k] = b

\* C3: once the build steps are computed, a binary's copy_exe_to is empty
\* exactly when no Cargo step lists the binary in its expected_binaries.
C3_BuiltIffRequired ==
    pc = "return" =>
        \A b \in 1..Len(binaries) :
            (Len(binaries[b].copy_exe_to) = 0) <=> ~ExpectedByACargoStep(b)

C3_Witness ==
    /\ pc = "return"
    /\ Len(build_steps) # 0
    /\ \E b \in 1..Len(binaries) :
           Len(binaries[b].copy_exe_to) = 0 /\ ~ExpectedByACargoStep(b)

GlobalListings(a) ==
    {<<r, k>> \in (1..Len(releases)) \X (1..Len(artifacts)) :
        k <= Len(releases[r].global_artifacts) /\ releases[r].global_artifacts[k] = a}

LocalListings(a) ==
    {<<v, k>> \in (1..Len(variants)) \X (1..Len(artifacts)) :
        k <= Len(variants[v].local_artifacts) /\ variants[v].local_artifacts[k] = a}

\* C4: an artifact with is_global set is listed exactly once, in one
\* Release's global_artifacts, and in no variant's local_artifacts; an
\* artifact with is_global clear is listed exactly once, in one variant's
\* local_artifacts, and in no release's global_artifacts.
C4_ListedWhereIsGlobalSays ==
    \A a \in 1..Len(artifacts) :
        IF artifacts[a].is_global
        THEN Cardinality(GlobalListings(a)) = 1 /\ LocalListings(a) = {}
        ELSE Cardinality(LocalListings(a)) = 1 /\ GlobalListings(a) = {}

C4_Witness ==
    /\ \E a \in 1..Len(artifacts) : artifacts[a].is_global
    /\ \E a \in 1..Len(artifacts) : ~artifacts[a].is_global

(***************************************************************************)
(* Properties of the tag resolver, stated on the workspace, the tag given  *)
(* and the result select_tag left in announcing                            *)
(***************************************************************************)
Selected == Unwrap(announcing)
GivenTag == Unwrap(cfg.announcement_tag)

\* the result is one of the errors parse_tag returns
ParseTagFailed ==
    ~Selected.ok /\ Selected.err.kind \in {"TagVersionParse", "ContradictoryTagVersion", "NoTagMatch"}

\* a package cargo-dist may release: it has binaries and neither dist = false
\* nor an unoverridden publish = false
Distable(package) ==
    /\ Len(package.binaries) > 0
    /\ package.dist # Some(FALSE)
    /\ package.publish \/ package.dist = Some(TRUE)

DistableIds == {i \in 1..Len(workspace) : Distable(workspace[i])}
DistableVersions == {workspace[i].version : i \in DistableIds}

\* the packages of ids with their binaries, in workspace order
ReleasesOf(ids) ==
    SelectSeq([i \in 1..Len(workspace) |-> <<i, workspace[i].binaries>>],
              LAMBDA release : release[1] \in ids)

RECURSIVE CommaSeparated(_)
CommaSeparated(names) ==
    IF Len(names) = 0 THEN ""
    ELSE IF Len(names) = 1 THEN names[1]
    ELSE names[1] \o ", " \o CommaSeparated(Tail(names))

\* the names of the distable packages at a version, in workspace order
NamesAt(version) ==
    LET at == SelectSeq([i \in 1..Len(workspace) |-> i],
                        LAMBDA i : i \in DistableIds /\ workspace[i].version = version)
    IN CommaSeparated([k \in 1..Len(at) |-> workspace[at[k]].name])

Occurrences(s, p) ==
    Cardinality({i \in 1..(Len(s) - Len(p) + 1) : SubSeq(s, i, i + Len(p) - 1) = p})

\* C5: with no tag given, when the packages that pass package selection all
\* have the same version V, select_tag succeeds with tag "v" + V, version V,
\* no targeted package, prerelease exactly when V has a prerelease component,
\* and a selection equal to those packages.
C5_InferredTag ==
    (IsSome(announcing) /\ IsNone(cfg.announcement_tag)) =>
        \A V \in DistableVersions :
            DistableVersions = {V} =>
                Selected = Ok([tag |-> "v" \o VersionToString(V),
                               version |-> Some(V),
                               package |-> None,
                               prerelease |-> V.pre # "",
                               rust_releases |-> ReleasesOf(DistableIds)])

C5_Witness ==
    /\ IsSome(announcing) /\ IsNone(cfg.announcement_tag)
    /\ Cardinality(DistableIds) = 2
    /\ Cardinality(DistableVersions) = 1
    /\ \E i \in 1..Len(workspace) : workspace[i].version \notin DistableVersions
    /\ Selected.ok /\ Len(Selected.val.rust_releases) = 2

\* C6: with no tag given and a coherent announcement needed, when the
\* selected packages span two or more distinct versions select_tag fails with
\* TooManyUnrelatedApps, and the help text lists exactly one "--tag=v<version>"
\* option per distinct version, naming exactly the selected packages at that
\* version.
C6_TooManyUnrelatedApps ==
    (/\ IsSome(announcing) /\ IsNone(cfg.announcement_tag)
     /\ cfg.needs_coherent_announcement_tag
     /\ Cardinality(DistableVersions) >= 2) =>
        /\ ~Selected.ok
        /\ Selected.err.kind = "TooManyUnrelatedApps"
        /\ Occurrences(Selected.err.help, "--tag=v") = Cardinality(DistableVersions)
        /\ \A V \in DistableVersions :
               Occurrences(Selected.err.help,
                           "--tag=v" \o VersionToString(V) \o " will Announce: "
                               \o NamesAt(V) \o "\n") = 1

C6_Witness ==
    /\ IsSome(announcing) /\ IsNone(cfg.announcement_tag)
    /\ cfg.needs_coherent_announcement_tag
    /\ Cardinality(DistableVersions) = 2
    /\ Cardinality(DistableIds) = 3
    /\ ~Selected.ok /\ Selected.err.kind = "TooManyUnrelatedApps"

\* the tag is the fused form <package>-v<version> of package i at its real version
FusedTagOf(i) ==
    /\ IsSome(cfg.announcement_tag)
    /\ GivenTag = workspace[i].name \o "-v" \o VersionToString(workspace[i].version)

\* another package of the workspace has a longer name that the text starts with
LongerPrefixThan(i, text) ==
    \E j \in 1..Len(workspace) :
        Len(workspace[j].name) > Len(workspace[i].name) /\ StartsWith(text, workspace[j].name)

TargetsOnly(i) ==
    /\ Selected.ok
    /\ Selected.val.package = Some(i)
    /\ Selected.val.tag = GivenTag
    /\ \A k \in 1..Len(Selected.val.rust_releases) : Selected.val.rust_releases[k][1] = i

\* C7: for an explicit tag of the fused form <pkg>-v<X.Y.Z>, where <pkg> is
\* the name of a workspace package whose real version is X.Y.Z, select_tag
\* succeeds with package = that package, tag = the literal string, and a
\* selection that contains no other package.
C7_FusedTagTargetsThePackage ==
    IsSome(announcing) =>
        \A i \in 1..Len(workspace) : FusedTagOf(i) => TargetsOnly(i)

\* C7, amended: the same, provided no other workspace package has a longer
\* name that is also a prefix of the tag.
C7_FusedTagTargetsTheLongestPackage ==
    IsSome(announcing) =>
        \A i \in 1..Len(workspace) :
            (FusedTagOf(i) /\ ~LongerPrefixThan(i, GivenTag)) => TargetsOnly(i)

C7_Witness ==
    /\ IsSome(announcing)
    /\ \E i \in 1..Len(workspace) :
           /\ FusedTagOf(i) /\ ~LongerPrefixThan(i, GivenTag)
           /\ TargetsOnly(i)
           /\ Len(Selected.val.rust_releases) = 1
           /\ \E j \in DistableIds : j # i /\ workspace[j].version = workspace[i].version
           /\ \E j \in 1..Len(workspace) : j # i /\ StartsWith(GivenTag, workspace[j].name)

\* the tag names package i in the "/" form: the last component before the
\* tag's last "/" is exactly the package's name
SlashTagNames(i) ==
    /\ IsSome(RSplitOnce(GivenTag, "/"))
    /\ PathFileName(Unwrap(RSplitOnce(GivenTag, "/"))[1]) = workspace[i].name

\* what follows the tag's last "/", the whole tag when it has none
AfterSlash == PathFileName(GivenTag)

\* the tag names package i in the fused form: no package is named in the "/"
\* form, and of the packages whose name starts the text after the "/", i has
\* the longest name and a dash follows it
FusedTagNames(i) ==
    /\ \A j \in 1..Len(workspace) : ~SlashTagNames(j)
    /\ StartsWith(AfterSlash, workspace[i].name \o "-")
    /\ ~LongerPrefixThan(i, AfterSlash)

NamedByTag(i) == SlashTagNames(i) \/ FusedTagNames(i)

WithoutV(text) == IF StartsWith(text, "v") THEN Tail_(text, 1) ELSE text

\* the part of the tag left for the version when the tag names package i
VersionPartFor(i) ==
    WithoutV(IF SlashTagNames(i) THEN AfterSlash
             ELSE Tail_(AfterSlash, Len(workspace[i].name) + 1))

\* the part of the tag left for the version when the tag names no package
VersionPart == WithoutV(AfterSlash)

\* C8: whenever parse_tag matches a package from the tag, in the "/" form or
\* the fused form, and the version parsed from the tag differs from that
\* package's real version, it fails with ContradictoryTagVersion carrying the
\* tag, the tag's version and the real version.
C8_ContradictoryTagVersion ==
    (IsSome(announcing) /\ IsSome(cfg.announcement_tag)) =>
        \A i \in 1..Len(workspace) :
            (/\ NamedByTag(i)
             /\ IsSome(ParseVersion(VersionPartFor(i)))
             /\ Unwrap(ParseVersion(VersionPartFor(i))) # workspace[i].version) =>
                Selected = Err([kind |-> "ContradictoryTagVersion",
                                tag |-> GivenTag,
                                package_name |-> workspace[i].name,
                                tag_version |-> Unwrap(ParseVersion(VersionPartFor(i))),
                                real_version |-> workspace[i].version])

C8_Witness ==
    /\ IsSome(announcing) /\ IsSome(cfg.announcement_tag)
    /\ \E i \in 1..Len(workspace) :
           /\ SlashTagNames(i)
           /\ IsSome(ParseVersion(VersionPartFor(i)))
           /\ Unwrap(ParseVersion(VersionPartFor(i))).major # workspace[i].version.major
    /\ ~Selected.ok /\ Selected.err.kind = "ContradictoryTagVersion"

\* C9: the package match and the version match of parse_tag are independently
\* optional: parse_tag succeeds whenever at least one of the two succeeds
\* (the two agreeing when both do), and fails only when neither does.
C9_PackageOrVersionSuffices ==
    (IsSome(announcing) /\ IsSome(cfg.announcement_tag)) =>
        /\ \A i \in 1..Len(workspace) :
               (/\ NamedByTag(i)
                /\ ParseVersion(VersionPartFor(i)) \in {None, Some(workspace[i].version)}) =>
                    ~ParseTagFailed
        /\ ((\A i \in 1..Len(workspace) : ~NamedByTag(i)) /\ IsSome(ParseVersion(VersionPart))) =>
               ~ParseTagFailed

\* C9, amended: the package match is optional and the version match is not.
\* parse_tag succeeds exactly when the part of the tag left for the version
\* parses as a version and, when the tag names a package, equals that
\* package's real version; a tag with no parseable version fails with
\* TagVersionParse whether or not it names a package, and NoTagMatch is never
\* returned.
C9_VersionIsMandatory ==
    (IsSome(announcing) /\ IsSome(cfg.announcement_tag)) =>
        /\ \A i \in 1..Len(workspace) :
               NamedByTag(i) =>
                   /\ ~ParseTagFailed <=> ParseVersion(VersionPartFor(i)) = Some(workspace[i].version)
                   /\ IsNone(ParseVersion(VersionPartFor(i))) =>
                          Selected = Err([kind |-> "TagVersionParse", tag |-> GivenTag])
        /\ (\A i \in 1..Len(workspace) : ~NamedByTag(i)) =>
               /\ ~ParseTagFailed <=> IsSome(ParseVersion(VersionPart))
               /\ IsNone(ParseVersion(VersionPart)) =>
                      Selected = Err([kind |-> "TagVersionParse", tag |-> GivenTag])
        /\ ~Selected.ok => Selected.err.kind # "NoTagMatch"

C9_Witness ==
    /\ IsSome(announcing) /\ IsSome(cfg.announcement_tag)
    /\ \E i \in 1..Len(workspace) :
           NamedByTag(i) /\ Distable(workspace[i]) /\ IsNone(ParseVersion(VersionPartFor(i)))
    /\ Selected = Err([kind |-> "TagVersionParse", tag |-> GivenTag])

\* the packages select_packages is to select: the distable ones, only the
\* package the tag names when it names one, only those at the tag's version
\* when it names none
ToSelect ==
    {i \in DistableIds :
        IF IsNone(cfg.announcement_tag) THEN TRUE
        ELSE IF \E j \in 1..Len(workspace) : NamedByTag(j) THEN NamedByTag(i)
        ELSE ParseVersion(VersionPart) = Some(workspace[i].version)}

\* C10: when package selection yields no package with binaries, select_tag
\* succeeds, with an empty selection, only if the tag targeted a single
\* package; in every other case, permissive mode and an absent tag included,
\* it fails with NothingToRelease.
C10_EmptySelection ==
    (IsSome(announcing) /\ ~ParseTagFailed /\ ToSelect = {}) =>
        IF IsSome(cfg.announcement_tag) /\ \E i \in 1..Len(workspace) : NamedByTag(i)
        THEN /\ Selected.ok
             /\ Selected.val.rust_releases = <<>>
             /\ \E i \in 1..Len(workspace) : NamedByTag(i) /\ Selected.val.package = Some(i)
        ELSE ~Selected.ok /\ Selected.err.kind = "NothingToRelease"

C10_Witness ==
    /\ IsSome(announcing) /\ ToSelect = {}
    /\ IsNone(cfg.announcement_tag)
    /\ ~cfg.needs_coherent_announcement_tag
    /\ Len(workspace) = 2
    /\ ~Selected.ok /\ Selected.err.kind = "NothingToRelease"

\* C11: permissive mode. With no tag given and no coherent announcement
\* needed, when the selected packages span more than one version select_tag
\* succeeds with the placeholder tag "v1.0.0-FAKEVER", the placeholder version
\* 1.0.0-FAKEVER, prerelease true, and a selection equal to every package
\* that passes the tag-independent checks, whatever its version.
C11_PermissivePlaceholder ==
    (/\ IsSome(announcing) /\ IsNone(cfg.announcement_tag)
     /\ ~cfg.needs_coherent_announcement_tag
     /\ Cardinality(DistableVersions) > 1) =>
        /\ Selected.ok
        /\ Selected.val.tag = "v1.0.0-FAKEVER"
        /\ IsSome(Selected.val.version)
        /\ VersionToString(Unwrap(Selected.val.version)) = "1.0.0-FAKEVER"
        /\ Selected.val.prerelease = TRUE
        /\ Selected.val.rust_releases = ReleasesOf(DistableIds)

C11_Witness ==
    /\ IsSome(announcing) /\ IsNone(cfg.announcement_tag)
    /\ ~cfg.needs_coherent_announcement_tag
    /\ Len(workspace) = 3
    /\ Cardinality(DistableIds) = 2
    /\ Cardinality(DistableVersions) = 2
    /\ Selected.ok /\ Len(Selected.val.rust_releases) = 2

\* the releases that list artifact a among their global artifacts
ReleasesListing(a) ==
    {r \in 1..Len(releases) :
        \E k \in 1..Len(releases[r].global_artifacts) : releases[r].global_artifacts[k] = a}

TargetsOfRelease(r) == {variants[v].target : v \in RangeOf(releases[r].variants)}

\* the shell and Homebrew installers of the store
RosettaInstallers ==
    {a \in 1..Len(artifacts) :
        /\ artifacts[a].kind.type = "Installer"
        /\ artifacts[a].kind.impl.style \in {"Shell", "Homebrew"}}

FragmentsOf(a) == artifacts[a].kind.impl.info.artifacts

\* fragment i of installer a is for arm64 macOS and reuses the archive of the
\* x86_64 macOS fragment j
ReusesX64Archive(a, i, j) ==
    /\ FragmentsOf(a)[i].target_triples = <<"aarch64-apple-darwin">>
    /\ FragmentsOf(a)[j].target_triples = <<"x86_64-apple-darwin">>
    /\ FragmentsOf(a)[i].id = FragmentsOf(a)[j].id
    /\ FragmentsOf(a)[i].zip_style = FragmentsOf(a)[j].zip_style
    /\ FragmentsOf(a)[i].binaries = FragmentsOf(a)[j].binaries

NeedsEmulation(r) ==
    /\ "x86_64-apple-darwin" \in TargetsOfRelease(r)
    /\ "aarch64-apple-darwin" \notin TargetsOfRelease(r)

\* C12: emulation fallback. The manifest of a shell or Homebrew installer of
\* a release with an x86_64-apple-darwin variant and no aarch64-apple-darwin
\* variant holds, besides the x86_64 fragment, a fragment whose target_triples
\* is exactly [aarch64-apple-darwin] with the archive id, zip style and binary
\* names of the x86_64 fragment (and Homebrew's arm64 slot holds it); for any
\* other release the manifest has no such fragment.
C12_EmulationFallback ==
    \A a \in RosettaInstallers : \A r \in ReleasesListing(a) :
        IF NeedsEmulation(r)
        THEN \E i, j \in 1..Len(FragmentsOf(a)) :
                 /\ ReusesX64Archive(a, i, j)
                 /\ artifacts[a].kind.impl.style = "Homebrew" =>
                        artifacts[a].kind.impl.arm64 = Some(FragmentsOf(a)[i])
        ELSE /\ \A i, j \in 1..Len(FragmentsOf(a)) :
                    ~(/\ FragmentsOf(a)[i].target_triples = <<"aarch64-apple-darwin">>
                      /\ FragmentsOf(a)[j].target_triples = <<"x86_64-apple-darwin">>
                      /\ FragmentsOf(a)[i].id = FragmentsOf(a)[j].id)
             /\ Len(FragmentsOf(a)) =
                    Cardinality({k \in 1..Len(releases[r].variants) :
                        ~InstallerSkipsTarget(artifacts[a].kind.impl.style,
                                              variants[releases[r].variants[k]].target)})

\* a finished plan with a shell and a Homebrew installer for a release that
\* has only the x86_64 macOS variant
C12_Witness ==
    /\ pc = "done" /\ result = Some(Ok("DistGraph"))
    /\ \E a, b \in RosettaInstallers :
           /\ artifacts[a].kind.impl.style = "Shell"
           /\ artifacts[b].kind.impl.style = "Homebrew"
           /\ \E r \in ReleasesListing(a) \cap ReleasesListing(b) :
                  /\ NeedsEmulation(r)
                  /\ Len(FragmentsOf(a)) = 2 /\ Len(FragmentsOf(b)) = 2
                  /\ IsSome(artifacts[b].kind.impl.x86_64)

\* a finished plan with a shell installer for a release that has both macOS
\* variants
C12_WitnessBoth ==
    /\ pc = "done" /\ result = Some(Ok("DistGraph"))
    /\ \E a \in RosettaInstallers : \E r \in ReleasesListing(a) :
           {"x86_64-apple-darwin", "aarch64-apple-darwin"} \subseteq TargetsOfRelease(r)

\* C13: the id of the Release add_release creates for a package with app name
\* A and version V is the string "A-vV", and the variant ids derived from it
\* start with it.
C13_ReleaseIdHasVersion ==
    \A r \in 1..Len(releases) :
        /\ releases[r].id =
               releases[r].app_name \o "-v" \o VersionToString(releases[r].version)
        /\ \A k \in 1..Len(releases[r].variants) :
               variants[releases[r].variants[k]].id =
                   releases[r].app_name \o "-v" \o VersionToString(releases[r].version)
                       \o "-" \o variants[releases[r].variants[k]].target

\* C14: after a successful gather_work, whatever the explicit target and
\* installer lists (repetitions included), no two Artifacts of the store have
\* the same id and no two ReleaseVariants have the same id.
C14_UniqueArtifactAndVariantIds ==
    result = Some(Ok("DistGraph")) =>
        /\ \A i, j \in 1..Len(artifacts) : artifacts[i].id = artifacts[j].id => i = j
        /\ \A i, j \in 1..Len(variants) : variants[i].id = variants[j].id => i = j

(***************************************************************************)
(* Properties of the graph builder, for every store its operations build   *)
(***************************************************************************)
\* C15: after any sequence of graph-builder operations no artifact of kind
\* Checksum has its own checksum field set, and every checksum field that is
\* set points to an artifact of kind Checksum.
C15_ChecksumsAreNotChecksummed ==
    \A a \in 1..Len(artifacts) :
        /\ artifacts[a].kind.type = "Checksum" => artifacts[a].checksum = <<>>
        /\ artifacts[a].checksum # <<>> =>
               /\ artifacts[a].checksum[1] \in 1..Len(artifacts)
               /\ artifacts[artifacts[a].checksum[1]].kind.type = "Checksum"

\* a store whose MSI has a checksum artifact next to it in the variant
C15_Witness ==
    \E a, b \in 1..Len(artifacts) :
        /\ artifacts[a].kind.type = "Installer"
        /\ artifacts[a].checksum = <<b>>
        /\ artifacts[b].kind.type = "Checksum"
        /\ \E v \in 1..Len(variants) : variants[v].local_artifacts = <<a, b>>

WindowsVariantsOf(r) ==
    SelectSeq(releases[r].variants, LAMBDA v : Occurrences(variants[v].target, "windows") > 0)

\* the names of the packages that own the binaries of variant v
OwnersOf(v) == {workspace[binaries[b].pkg_idx].name : b \in RangeOf(variants[v].binaries)}

\* what add_installer(r, Msi) returns when called on the store as it is
MsiOutcome(r) == add_installer(Graph, r, "Msi")

\* artifact a of the store add_installer returned is the MSI of variant v
IsMsiOf(store, a, v) ==
    /\ store.artifacts[a].kind.type = "Installer"
    /\ store.artifacts[a].kind.impl.style = "Msi"
    /\ store.artifacts[a].id = variants[v].id \o ".msi"
    /\ store.artifacts[a].kind.impl.target = variants[v].target
    /\ \E k \in 1..Len(store.variants[v].local_artifacts) :
           store.variants[v].local_artifacts[k] = a

\* C17: MSI uniqueness. add_msi_installer meets the Windows variants of the
\* release in order: a variant whose binaries belong to two or more packages
\* makes it fail with MultiPackageMsi naming two of those packages, a variant
\* without binaries makes it fail with NoPackageMsi, and for any other
\* variant the MSI artifact it registers names the one package that owns all
\* of the variant's binaries.
C17_MsiHasOneOwner ==
    cfg.artifact_mode \in {"Local", "Host", "All"} =>
        \A r \in 1..Len(releases) :
            LET W == WindowsVariantsOf(r)
                unfit == {k \in 1..Len(W) : Cardinality(OwnersOf(W[k])) # 1}
                first == CHOOSE k \in unfit : \A j \in unfit : k <= j
                outcome == MsiOutcome(r)
            IN IF unfit = {}
               THEN /\ outcome.ok
                    /\ \A k \in 1..Len(W) :
                           \E a \in (Len(artifacts) + 1)..Len(outcome.val.artifacts) :
                               /\ IsMsiOf(outcome.val, a, W[k])
                               /\ OwnersOf(W[k]) = {outcome.val.artifacts[a].kind.impl.pkg_spec}
               ELSE /\ ~outcome.ok
                    /\ outcome.err.artifact_name = variants[W[first]].id \o ".msi"
                    /\ IF OwnersOf(W[first]) = {}
                       THEN outcome.err.kind = "NoPackageMsi"
                       ELSE /\ outcome.err.kind = "MultiPackageMsi"
                            /\ outcome.err.spec1 # outcome.err.spec2
                            /\ {outcome.err.spec1, outcome.err.spec2} \subseteq OwnersOf(W[first])

\* add_installer(Msi) has failed on a Windows variant with the binaries of two
\* packages
C17_Witness ==
    /\ pc = "done"
    /\ result # <<>> /\ ~result[1].ok /\ result[1].err.kind = "MultiPackageMsi"
    /\ \E r \in 1..Len(releases) : \E k \in 1..Len(WindowsVariantsOf(r)) :
           Cardinality(OwnersOf(WindowsVariantsOf(r)[k])) = 2

\* add_installer(Msi) has failed on a Windows variant without binaries
C17_WitnessNoPackage ==
    /\ pc = "done"
    /\ result # <<>> /\ ~result[1].ok /\ result[1].err.kind = "NoPackageMsi"

\* add_installer(Msi) has registered the MSI of a variant with one owner
C17_WitnessRegistered ==
    \E a \in 1..Len(artifacts) : \E v \in 1..Len(variants) :
        /\ IsMsiOf(Graph, a, v)
        /\ OwnersOf(v) = {artifacts[a].kind.impl.pkg_spec}

\* add_installer called on the store as it is changes nothing
SkipsInstaller(r, installer) == add_installer(Graph, r, installer) = [ok |-> TRUE, val |-> Graph]

\* C18 as stated: each of the five installer generators requires the artifact
\* download URL, and when it is absent add_installer returns success,
\* registers no artifact and leaves the store unchanged.
C18_EveryInstallerNeedsTheUrl ==
    artifact_download_url = <<>> =>
        \A r \in 1..Len(releases) :
            \A installer \in {"Shell", "Powershell", "Npm", "Homebrew", "Msi"} :
                SkipsInstaller(r, installer)

\* C18, amended: the shell, PowerShell, npm and Homebrew generators require
\* the artifact download URL, and when it is absent add_installer for these
\* kinds returns success and leaves the store unchanged; the MSI generator
\* does not consult the URL and, with local artifacts enabled, registers an
\* MSI for a Windows variant of one owner also when the URL is absent.
C18_GlobalInstallersNeedTheUrl ==
    artifact_download_url = <<>> =>
        \A r \in 1..Len(releases) :
            /\ \A installer \in {"Shell", "Powershell", "Npm", "Homebrew"} :
                   SkipsInstaller(r, installer)
            /\ (/\ cfg.artifact_mode \in {"Local", "Host", "All"}
                /\ Len(WindowsVariantsOf(r)) > 0
                /\ \A k \in 1..Len(WindowsVariantsOf(r)) :
                       Cardinality(OwnersOf(WindowsVariantsOf(r)[k])) = 1) =>
                   LET outcome == MsiOutcome(r)
                   IN outcome.ok /\ Len(outcome.val.artifacts) > Len(artifacts)

\* without a download URL and with every artifact enabled, a release with a
\* binary, a macOS and a Windows variant has its MSI and no other installer
C18_Witness ==
    /\ artifact_download_url = <<>>
    /\ cfg.artifact_mode = "All"
    /\ \E r \in 1..Len(releases) :
           /\ Len(releases[r].bins) = 1
           /\ TargetsOfRelease(r) = {"x86_64-apple-darwin", "x86_64-pc-windows-msvc"}
           /\ releases[r].global_artifacts = <<>>
           /\ \E a \in 1..Len(artifacts) : IsMsiOf(Graph, a, WindowsVariantsOf(r)[1])

\* what add_installer(r, Npm) returns when called on the store as it is
NpmOutcome(r) == add_installer(Graph, r, "Npm")

\* C19: npm constraint. add_npm_installer registers no artifact, returns no
\* error and leaves the store unchanged whenever the release declares more
\* than one binary; when the release declares exactly one binary, global
\* artifacts are enabled, a download URL exists and the release has at least
\* one variant, it registers one npm installer artifact whose bin is that
\* binary's name.
C19_NpmNeedsOneBinary ==
    \A r \in 1..Len(releases) :
        /\ Len(releases[r].bins) > 1 => SkipsInstaller(r, "Npm")
        /\ (/\ Len(releases[r].bins) = 1
            /\ cfg.artifact_mode \in {"Global", "Host", "All"}
            /\ artifact_download_url # <<>>
            /\ Len(releases[r].variants) >= 1) =>
               LET outcome == NpmOutcome(r)
                   added == outcome.val.artifacts[Len(artifacts) + 1]
               IN /\ outcome.ok
                  /\ Len(outcome.val.artifacts) = Len(artifacts) + 1
                  /\ SubSeq(outcome.val.artifacts, 1, Len(artifacts)) = artifacts
                  /\ added.kind.type = "Installer"
                  /\ added.kind.impl.style = "Npm"
                  /\ added.kind.impl.bin = releases[r].bins[1][2]
                  /\ outcome.val.releases[r].global_artifacts =
                         Append(releases[r].global_artifacts, Len(artifacts) + 1)

\* a release that declares two binaries, has a variant and a download URL, and
\* for which add_installer(Npm) does nothing
C19_Witness ==
    /\ artifact_download_url # <<>>
    /\ cfg.artifact_mode = "Global"
    /\ \E r \in 1..Len(releases) :
           /\ Len(releases[r].bins) = 2
           /\ Len(releases[r].variants) = 1
           /\ SkipsInstaller(r, "Npm")

\* a release with one binary has its npm installer
C19_WitnessRegistered ==
    \E r \in 1..Len(releases) : \E a \in 1..Len(artifacts) :
        /\ releases[r].bins = <<<<2, "tool">>>>
        /\ releases[r].global_artifacts = <<a>>
        /\ artifacts[a].kind.type = "Installer"
        /\ artifacts[a].kind.impl.style = "Npm"
        /\ artifacts[a].kind.impl.bin = "tool"

(***************************************************************************)
(* Properties of DistGraphBuilder::new                                     *)
(***************************************************************************)
\* the packages whose merged features, all-features or default-features
\* differ from the workspace's
Disagreeing ==
    {i \in 1..Len(workspace) :
        <<workspace[i].features, workspace[i].all_features, workspace[i].default_features>>
            # <<workspace_config.features, workspace_config.all_features,
                workspace_config.default_features>>}

PreciseImpossible ==
    result # <<>> /\ ~result[1].ok /\ result[1].err.kind = "PreciseImpossible"

\* C20: precise-build decision. DistGraphBuilder::new fails with
\* PreciseImpossible, listing exactly the packages whose merged feature
\* settings differ from the workspace's, if and only if precise-builds is
\* explicitly false and there is such a package; otherwise precise_builds is
\* the explicit setting when one is given, and is whether some package's
\* settings differ when none is given.
C20_PreciseBuildDecision ==
    pc # "new" =>
        /\ PreciseImpossible <=>
               (workspace_config.precise_builds = <<FALSE>> /\ Disagreeing # {})
        /\ PreciseImpossible =>
               /\ Len(result[1].err.packages) = Cardinality(Disagreeing)
               /\ {result[1].err.packages[k] : k \in 1..Len(result[1].err.packages)} =
                      {workspace[i].name : i \in Disagreeing}
        /\ ~PreciseImpossible =>
               /\ result = <<>>
               /\ precise_builds = IF workspace_config.precise_builds # <<>>
                                    THEN workspace_config.precise_builds[1]
                                    ELSE Disagreeing # {}

\* new has refused a workspace in which one of two packages disagrees with
\* the workspace on default-features alone
C20_Witness ==
    /\ pc = "done" /\ PreciseImpossible
    /\ Len(workspace) = 2 /\ Cardinality(Disagreeing) = 1
    /\ \A i \in Disagreeing :
           /\ workspace[i].features = workspace_config.features
           /\ workspace[i].all_features = workspace_config.all_features

\* new has turned precise builds on by itself
C20_WitnessForced ==
    /\ pc = "triples" /\ workspace_config.precise_builds = <<>>
    /\ precise_builds = TRUE /\ Disagreeing # {}

\* ---- C21: package selection ----

\* the packages the claim selects when package and version are targeted
\* (each an Option): the distable ones that are the targeted package, if any,
\* and have the targeted version, if any
SelectedWhenTargeting(package, version) ==
    {i \in DistableIds :
        /\ package = <<>> \/ package = <<i>>
        /\ version = <<>> \/ version = <<workspace[i].version>>}

\* C21: select_packages selects a workspace package exactly when it declares a
\* binary, its dist flag is not false, it is publishable or its dist flag is
\* true, it is the targeted package if one is targeted, and it has the
\* targeted version if one is targeted; a selected package contributes all of
\* its binaries and an unselected one contributes none. Checked for every
\* combination of targets on every workspace, and on the selection select_tag
\* returns.
C21_PackageSelection ==
    IsSome(announcing) =>
        /\ \A package \in {<<>>} \cup {<<i>> : i \in 1..Len(workspace)},
              version \in {<<>>} \cup {<<v>> : v \in TagVersions} :
               select_packages(workspace,
                               PartialAnnouncementTag(<<"tag">>, version, package, FALSE))
                   = ReleasesOf(SelectedWhenTargeting(package, version))
        /\ (Selected.ok /\ IsSome(cfg.announcement_tag)) =>
               Selected.val.rust_releases =
                   ReleasesOf(SelectedWhenTargeting(Selected.val.package, Selected.val.version))

\* a tag that names a package with dist = true and publish = false selected
\* it with both of its binaries, and left the other distable packages out
C21_Witness ==
    /\ IsSome(announcing) /\ IsSome(cfg.announcement_tag) /\ Selected.ok
    /\ Cardinality(DistableIds) = 3
    /\ \E i \in DistableIds :
           /\ Selected.val.package = <<i>>
           /\ ~workspace[i].publish /\ workspace[i].dist = <<TRUE>>
           /\ Len(workspace[i].binaries) = 2
           /\ Selected.val.rust_releases = <<<<i, workspace[i].binaries>>>>

\* a tag that names a version selected the distable packages at that version
\* and left a distable package at another version out
C21_WitnessVersion ==
    /\ IsSome(announcing) /\ IsSome(cfg.announcement_tag) /\ Selected.ok
    /\ IsSome(Selected.val.version) /\ IsNone(Selected.val.package)
    /\ Len(Selected.val.rust_releases) = 2
    /\ Cardinality(DistableIds) = 3

\* ---- C22: package names in tags ----

\* the packages whose name is a prefix of input
PrefixPackages(input) == {i \in 1..Len(workspace) : StartsWith(input, workspace[i].name)}

\* the claim's result for input: the package with the longest name that is a
\* prefix of input paired with the remainder, nothing when there is none
LongestPrefixPackage(input) ==
    IF PrefixPackages(input) = {} THEN <<>>
    ELSE LET best == CHOOSE i \in PrefixPackages(input) :
                         \A j \in PrefixPackages(input) :
                             Len(workspace[j].name) <= Len(workspace[i].name)
         IN <<<<best, Tail_(input, Len(workspace[best].name))>>>>

\* the package the claim has parse_tag take from a tag, an Option: the match
\* on the last "/"-delimited component of the prefix if its remainder is
\* empty, else the match on the text after the last "/" if its remainder
\* begins with "-"
TagPackage(tag) ==
    LET slash == RSplitOnce(tag, "/")
        exact == IF slash = <<>> THEN <<>>
                 ELSE LongestPrefixPackage(PathFileName(slash[1][1]))
        fused == LongestPrefixPackage(PathFileName(tag))
    IN IF exact # <<>> /\ exact[1][2] = "" THEN <<exact[1][1]>>
       ELSE IF fused # <<>> /\ StartsWith(fused[1][2], "-") THEN <<fused[1][1]>>
       ELSE <<>>

\* texts that start with no, one or two package names of the pool, followed
\* by nothing, a dash or something else; tried on every workspace, next to
\* the tag that was given
PrefixInputs ==
    {"", "a", "a-v1", "a-", "ax", "a-v1-1.0.0", "a-v1x", "a-1.0.0", "b-2.0.0", "ba", "x-a", "1.0.0"}

\* tags in the fused and in the "/" form whose package part is or is not
\* exactly a package name
PrefixTags ==
    {"a-1.0.0", "a1.0.0", "a-v1-1.0.0", "a-v11.0.0", "a-v1x-1.0.0", "x-1.0.0",
     "a/1.0.0", "a-v1/1.0.0", "ax/1.0.0", "a-/1.0.0", "x/a/1.0.0", "a/x/1.0.0",
     "ax/a-1.0.0", "a-x/b-1.0.0", "x/a1.0.0", "a/b-1.0.0"}

\* C22: strip_prefix_package returns the workspace package with the longest
\* name that is a prefix of the input, with the remainder of the input, and
\* nothing when no package name is a prefix; parse_tag takes the match in the
\* fused form only if the remainder begins with "-", and in the "/" form only
\* if the last "/"-delimited component of the prefix is exactly a package name.
C22_LongestPackagePrefix ==
    IsSome(announcing) =>
        LET inputs == IF IsSome(cfg.announcement_tag)
                      THEN {GivenTag, PathFileName(GivenTag)} ELSE PrefixInputs
            tags == IF IsSome(cfg.announcement_tag) THEN {GivenTag} ELSE PrefixTags
        IN /\ \A input \in inputs :
                  strip_prefix_package(input, workspace) = LongestPrefixPackage(input)
           /\ \A tag \in tags :
                  tag_package_and_suffix(workspace, tag).announcing_package = TagPackage(tag)
           /\ (Selected.ok /\ IsSome(cfg.announcement_tag)) =>
                  Selected.val.package = TagPackage(GivenTag)

\* the tag starts with the names of two packages and select_tag took the
\* package with the longer name, which is not the first of the workspace
C22_Witness ==
    /\ IsSome(announcing) /\ IsSome(cfg.announcement_tag) /\ Selected.ok
    /\ Cardinality(PrefixPackages(GivenTag)) = 2
    /\ \E i \in PrefixPackages(GivenTag) :
           /\ Selected.val.package = <<i>>
           /\ \E j \in PrefixPackages(GivenTag) :
                  Len(workspace[j].name) < Len(workspace[i].name)

\* the tag names a package in the "/" form
C22_WitnessSlash ==
    /\ IsSome(announcing) /\ IsSome(cfg.announcement_tag) /\ Selected.ok
    /\ IsSome(RSplitOnce(GivenTag, "/"))
    /\ \E i \in 1..Len(workspace) :
           /\ Selected.val.package = <<i>>
           /\ PathFileName(Unwrap(RSplitOnce(GivenTag, "/"))[1]) = workspace[i].name

\* ---- C23: cargo builds ----

\* the positions of the Cargo steps in the step list
CargoSteps == {i \in 1..Len(build_steps) : build_steps[i].type = "Cargo"}

\* the binaries that need a build: an executable or symbols are to be copied
NeedsBuild == {b \in 1..Len(binaries) :
                  Len(binaries[b].copy_exe_to) # 0 \/ Len(binaries[b].copy_symbols_to) # 0}

\* the (target, package spec, features) combinations of the binaries to build
BuildCombinations ==
    {<<binaries[b].target, binaries[b].pkg_spec, binaries[b].features>> : b \in NeedsBuild}

\* the positions at which binary b is listed in the expected_binaries of a Cargo step
CargoListings(b) ==
    {<<i, k>> \in CargoSteps \X (1..Len(binaries)) :
        k <= Len(build_steps[i].expected_binaries) /\ build_steps[i].expected_binaries[k] = b}

\* C23: the Cargo steps come in ascending order of target; with precise
\* builds there is exactly one Cargo step per distinct (target, package spec,
\* features) of the binaries that need a build, and it builds that package;
\* otherwise there is exactly one Cargo step per target that has a binary
\* needing a build, and it builds the workspace; no binary is listed by more
\* than one Cargo step, and a listed binary has the target of its step.
C23_CargoBuilds ==
    pc = "return" =>
        /\ \A i, j \in CargoSteps :
               i < j => \/ build_steps[i].target_triple = build_steps[j].target_triple
                        \/ StrLess(build_steps[i].target_triple, build_steps[j].target_triple)
        /\ precise_builds =>
               /\ \A c \in BuildCombinations :
                      Cardinality({i \in CargoSteps :
                                      /\ build_steps[i].target_triple = c[1]
                                      /\ build_steps[i].package = <<"Package", c[2]>>
                                      /\ build_steps[i].features = c[3]}) = 1
               /\ Cardinality(CargoSteps) = Cardinality(BuildCombinations)
        /\ ~precise_builds =>
               /\ \A b \in NeedsBuild :
                      Cardinality({i \in CargoSteps :
                                      /\ build_steps[i].target_triple = binaries[b].target
                                      /\ build_steps[i].package = <<"Workspace">>}) = 1
               /\ Cardinality(CargoSteps) = Cardinality({binaries[b].target : b \in NeedsBuild})
        /\ \A b \in 1..Len(binaries) : Cardinality(CargoListings(b)) <= 1
        /\ \A b \in 1..Len(binaries) :
               \A l \in CargoListings(b) : build_steps[l[1]].target_triple = binaries[b].target

\* precise builds of two packages for two targets given in descending order:
\* one step lists the two binaries of a package, another builds the other
\* package for the same target
C23_Witness ==
    /\ pc = "return" /\ precise_builds
    /\ Len(cfg.targets) = 2 /\ StrLess(cfg.targets[2], cfg.targets[1])
    /\ \E i, j \in CargoSteps :
           /\ build_steps[i].target_triple = cfg.targets[1]
           /\ build_steps[j].target_triple = cfg.targets[2]
    /\ \E i, j \in CargoSteps :
           /\ build_steps[i].target_triple = build_steps[j].target_triple
           /\ build_steps[i].package # build_steps[j].package
           /\ Len(build_steps[i].expected_binaries) = 2

\* a workspace build for each of two targets given in descending order
C23_WitnessWorkspace ==
    /\ pc = "return" /\ ~precise_builds
    /\ Len(cfg.targets) = 2 /\ StrLess(cfg.targets[2], cfg.targets[1])
    /\ Cardinality(CargoSteps) = 2
    /\ \E i \in CargoSteps : Len(build_steps[i].expected_binaries) = 4

\* ---- C24: installer placement ----

\* the Installer artifacts a call added to the store it returned
NewInstallers(store) ==
    {a \in (Len(artifacts) + 1)..Len(store.artifacts) :
        store.artifacts[a].kind.type = "Installer"}

\* the platforms of an installer kind: the shell installer is for anything
\* but Windows, the PowerShell installer for Windows, Homebrew for macOS, npm
\* for every target
PlatformApplicable(installer, target) ==
    CASE installer = "Shell" -> Occurrences(target, "windows") = 0
      [] installer = "Powershell" -> Occurrences(target, "windows") > 0
      [] installer = "Homebrew" -> Occurrences(target, "windows") = 0
                                      /\ Occurrences(target, "linux-gnu") = 0
      [] installer = "Npm" -> TRUE

\* the variants and the releases of store whose list holds artifact a
LocalHolders(store, a) ==
    {v \in 1..Len(store.variants) : a \in RangeOf(store.variants[v].local_artifacts)}
GlobalHolders(store, a) ==
    {r \in 1..Len(store.releases) : a \in RangeOf(store.releases[r].global_artifacts)}

C24_WitnessGlobal ==
    /\ pc = "builder"
    /\ \E r \in 1..Len(releases) :
           /\ Len(releases[r].variants) = 2 /\ Len(WindowsVariantsOf(r)) = 1
           /\ Len(releases[r].global_artifacts) = 1
           /\ artifacts[releases[r].global_artifacts[1]].kind.type = "Installer"
           /\ artifacts[releases[r].global_artifacts[1]].kind.impl.style = "Shell"
           /\ artifacts[releases[r].global_artifacts[1]].is_global
           /\ \A v \in RangeOf(releases[r].variants) : variants[v].local_artifacts = <<>>

\* with the URL known and global artifacts enabled, a release whose only
\* variant is for macOS gets no PowerShell installer
C24_WitnessSkipped ==
    /\ pc = "builder"
    /\ cfg.artifact_mode = "All" /\ artifact_download_url # <<>>
    /\ \E r \in 1..Len(releases) :
           /\ Len(releases[r].variants) = 1 /\ WindowsVariantsOf(r) = <<>>
           /\ SkipsInstaller(r, "Powershell")
           /\ ~SkipsInstaller(r, "Shell")

\* ---- C25: executable archives ----

\* the artifacts of a kind that a call added to the local list of variant v
NewLocalOfKind(store, v, type) ==
    {a \in (Len(artifacts) + 1)..Len(store.artifacts) :
        /\ store.artifacts[a].kind.type = type
        /\ \E k \in 1..Len(store.variants[v].local_artifacts) :
               store.variants[v].local_artifacts[k] = a}

\* C25: with local artifacts enabled, add_executable_zip adds to every
\* variant of the release exactly one ExecutableZip local artifact whose
\* required_binaries has exactly the variant's binaries as keys; each
\* destination recorded there is appended to the copy_exe_to of its Binary;
\* and exactly when the release's checksum style is not False the variant
\* also gets one Checksum artifact, whose id is the archive's id, ".", and
\* the style's extension, whose source path is the archive's file path, and
\* which the archive's checksum field points to.
C25_ExecutableZip ==
    (pc = "builder" /\ cfg.artifact_mode \in {"Local", "Host", "All"}) =>
        \A r \in 1..Len(releases) :
            LET store == add_executable_zip(Graph, r)
                of_release == UNION {RangeOf(variants[v].binaries) :
                                        v \in RangeOf(releases[r].variants)}
            IN /\ \A v \in RangeOf(releases[r].variants) :
                      LET zips == NewLocalOfKind(store, v, "ExecutableZip")
                          sums == NewLocalOfKind(store, v, "Checksum")
                      IN /\ Cardinality(zips) = 1
                         /\ \A z \in zips :
                                LET zip == store.artifacts[z]
                                IN /\ {e[1] : e \in zip.required_binaries} =
                                          RangeOf(variants[v].binaries)
                                   /\ Cardinality(zip.required_binaries) =
                                          Cardinality(RangeOf(variants[v].binaries))
                                   /\ \A e \in zip.required_binaries :
                                          store.binaries[e[1]].copy_exe_to =
                                              Append(binaries[e[1]].copy_exe_to, e[2])
                                   /\ IF releases[r].checksum # "False"
                                      THEN /\ Cardinality(sums) = 1
                                           /\ zip.checksum # <<>>
                                           /\ sums = {zip.checksum[1]}
                                           /\ \A c \in sums :
                                                  /\ store.artifacts[c].id =
                                                         zip.id \o "." \o
                                                             ChecksumStyleExt(releases[r].checksum)
                                                  /\ store.artifacts[c].kind.src_path = zip.file_path
                                      ELSE sums = {} /\ zip.checksum = <<>>
               /\ \A b \in 1..Len(binaries) :
                      b \notin of_release => store.binaries[b] = binaries[b]
               /\ \A v \in 1..Len(variants) :
                      v \notin RangeOf(releases[r].variants) => store.variants[v] = variants[v]

\* the store holds what add_executable_zip leaves for a checksummed release
\* with one variant of two binaries: the archive and its checksum, and the
\* destination of each binary
C25_Witness ==
    /\ pc = "builder"
    /\ \E r \in 1..Len(releases) :
           /\ releases[r].checksum # "False"
           /\ Len(releases[r].variants) = 1
           /\ \E v \in RangeOf(releases[r].variants) :
                  /\ Len(variants[v].binaries) = 2
                  /\ Len(variants[v].local_artifacts) = 2
                  /\ artifacts[variants[v].local_artifacts[1]].kind.type = "ExecutableZip"
                  /\ artifacts[variants[v].local_artifacts[1]].checksum =
                         <<variants[v].local_artifacts[2]>>
                  /\ artifacts[variants[v].local_artifacts[2]].kind.type = "Checksum"
                  /\ \A b \in RangeOf(variants[v].binaries) : Len(binaries[b].copy_exe_to) = 1

\* the store holds what add_executable_zip leaves for a release without
\* checksums and with two variants: one archive each and no checksum
C25_WitnessUnchecksummed ==
    /\ pc = "builder"
    /\ \E r \in 1..Len(releases) :
           /\ releases[r].checksum = "False"
           /\ Len(releases[r].variants) = 2
           /\ \A v \in RangeOf(releases[r].variants) :
                  /\ Len(variants[v].binaries) = 1
                  /\ Len(variants[v].local_artifacts) = 1
                  /\ artifacts[variants[v].local_artifacts[1]].kind.type = "ExecutableZip"
                  /\ artifacts[variants[v].local_artifacts[1]].checksum = <<>>

\* ---- C26: the steps of an artifact ----

\* the artifacts in the order of the two passes: local ones, then global ones
ExpansionOrder ==
    SelectSeq([a \in 1..Len(artifacts) |-> a], LAMBDA a : ~artifacts[a].is_global)
        \o SelectSeq([a \in 1..Len(artifacts) |-> a], LAMBDA a : artifacts[a].is_global)

\* the step an artifact contributes for its kind, and the steps for its archive
KindSteps(a) == IF artifacts[a].kind.type \in {"Installer", "Checksum"} THEN 1 ELSE 0
AssetsOf(a) == IF artifacts[a].archive = <<>> THEN <<>> ELSE artifacts[a].archive[1].static_assets
ArchiveSteps(a) == IF artifacts[a].archive = <<>> THEN 0 ELSE Len(AssetsOf(a)) + 1

\* the number of steps before those of the k-th artifact of the expansion
RECURSIVE StepsBefore(_)
StepsBefore(k) ==
    IF k = 1 THEN Cardinality({i \in 1..Len(build_steps) : IsCompileStep(build_steps[i])})
    ELSE StepsBefore(k - 1) + KindSteps(ExpansionOrder[k - 1]) + ArchiveSteps(ExpansionOrder[k - 1])

C26_WitnessChecksum ==
    /\ pc = "return"
    /\ \E k \in 1..Len(ExpansionOrder) :
           /\ artifacts[ExpansionOrder[k]].kind.type = "ExecutableZip"
           /\ Len(AssetsOf(ExpansionOrder[k])) = 1
           /\ build_steps[StepsBefore(k) + 1].type = "CopyDir"
           /\ build_steps[StepsBefore(k) + 2].type = "Zip"
           /\ build_steps[StepsBefore(k) + 3].type = "Checksum"
    /\ \E a \in 1..Len(artifacts) :
           artifacts[a].kind.type = "Installer" /\ artifacts[a].archive = <<>>

\* ---- C27: a checksum after its source ----

\* the positions of the steps of the k-th artifact of the expansion
StepsOf(k) ==
    (StepsBefore(k) + 1)..
        (StepsBefore(k) + KindSteps(ExpansionOrder[k]) + ArchiveSteps(ExpansionOrder[k]))

\* C27: for every artifact A whose checksum field points to the checksum
\* artifact C, the Checksum step of C, which hashes A's file path, comes
\* after every step of A: A's Zip step, which produces that file, and for
\* an MSI its GenerateInstaller step.
C27_ChecksumAfterSource ==
    pc = "return" =>
        \A kA, kC \in 1..Len(ExpansionOrder) :
            LET A == artifacts[ExpansionOrder[kA]]
            IN A.checksum = <<ExpansionOrder[kC]>> =>
                   /\ StepsOf(kC) = {StepsBefore(kC) + 1}
                   /\ build_steps[StepsBefore(kC) + 1].type = "Checksum"
                   /\ build_steps[StepsBefore(kC) + 1].src_path = A.file_path
                   /\ \E i \in StepsOf(kA) :
                          build_steps[i].type = "Zip" /\ build_steps[i].dest_path = A.file_path
                   /\ A.kind.type = "Installer" =>
                          \E i \in StepsOf(kA) : build_steps[i].type = "GenerateInstaller"
                   /\ \A i \in StepsOf(kA) : i < StepsBefore(kC) + 1

\* an MSI with a checksum: its GenerateInstaller and Zip steps, then the
\* Checksum step; and an archive with a checksum
C27_Witness ==
    /\ pc = "return"
    /\ \E kA, kC \in 1..Len(ExpansionOrder) :
           /\ artifacts[ExpansionOrder[kA]].checksum = <<ExpansionOrder[kC]>>
           /\ artifacts[ExpansionOrder[kA]].kind.type = "Installer"
           /\ Cardinality(StepsOf(kA)) = 2
           /\ StepsOf(kC) # {}
    /\ \E kA, kC \in 1..Len(ExpansionOrder) :
           /\ artifacts[ExpansionOrder[kA]].checksum = <<ExpansionOrder[kC]>>
           /\ artifacts[ExpansionOrder[kA]].kind.type = "ExecutableZip"

\* ---- C28: artifact modes ----

\* C28: in artifact mode Global no variant has a local artifact, no Binary
\* has a destination to be copied to, and the step list has no Cargo or
\* Rustup step; in artifact mode Local no release has a global artifact.
\* Checked in every state of gather_work, the one it returns in included.
C28_ArtifactModeGating ==
    /\ cfg.artifact_mode = "Global" =>
           /\ \A v \in 1..Len(variants) : variants[v].local_artifacts = <<>>
           /\ \A b \in 1..Len(binaries) :
                  binaries[b].copy_exe_to = <<>> /\ binaries[b].copy_symbols_to = <<>>
           /\ \A i \in 1..Len(build_steps) : build_steps[i].type \notin {"Cargo", "Rustup"}
           /\ \A a \in 1..Len(artifacts) : artifacts[a].is_global
    /\ cfg.artifact_mode = "Local" =>
           /\ \A r \in 1..Len(releases) : releases[r].global_artifacts = <<>>
           /\ \A a \in 1..Len(artifacts) : ~artifacts[a].is_global

\* gather_work has returned in mode Global with a shell installer that
\* describes the archive of a variant with binaries, on a macOS host with
\* rustup asked for the other macOS target
C28_Witness ==
    /\ pc = "return" /\ cfg.artifact_mode = "Global"
    /\ Len(binaries) > 0 /\ Len(variants) > 0
    /\ tools.rustup # <<>> /\ \E v \in 1..Len(variants) : variants[v].target = ARM64_MACOS
    /\ \E a \in 1..Len(artifacts) :
           /\ artifacts[a].kind.type = "Installer"
           /\ artifacts[a].kind.impl.style = "Shell"
           /\ Len(artifacts[a].kind.impl.info.artifacts) > 0
           /\ Len(artifacts[a].kind.impl.info.artifacts[1].binaries) > 0
    /\ \E i \in 1..Len(build_steps) : build_steps[i].type = "GenerateInstaller"

\* gather_work has returned in mode Local, asked for a shell installer with
\* the download URL known, with archives and Cargo steps alone
C28_WitnessLocal ==
    /\ pc = "return" /\ cfg.artifact_mode = "Local"
    /\ cfg.installers = <<"Shell">> /\ artifact_download_url # <<>>
    /\ \E v \in 1..Len(variants) : variants[v].local_artifacts # <<>>
    /\ \E i \in 1..Len(build_steps) : build_steps[i].type = "Cargo"

\* ---- C29: coherent selections ----

\* the versions of the packages select_tag selected
SelectedVersions ==
    {workspace[Selected.val.rust_releases[k][1]].version :
        k \in 1..Len(Selected.val.rust_releases)}

\* C29: when select_tag succeeds with needs_coherent_announcement_tag = true,
\* with or without a tag given, the selected packages all have the same
\* version, and a version in the result is that version.
C29_CoherentSelection ==
    (IsSome(announcing) /\ Selected.ok /\ cfg.needs_coherent_announcement_tag) =>
        /\ Cardinality(SelectedVersions) <= 1
        /\ Selected.val.version # <<>> => SelectedVersions = {Selected.val.version[1]}

\* with a coherent announcement needed and no tag, select_tag selected two
\* packages of one version next to an undistable package of another version
C29_Witness ==
    /\ IsSome(announcing) /\ Selected.ok /\ cfg.needs_coherent_announcement_tag
    /\ IsNone(cfg.announcement_tag)
    /\ Len(Selected.val.rust_releases) = 2
    /\ Selected.val.version # <<>>
    /\ Cardinality({workspace[i].version : i \in 1..Len(workspace)}) = 2

\* with a coherent announcement needed, a tag naming a version selected the
\* packages of that version out of distable packages of two versions
C29_WitnessTag ==
    /\ IsSome(announcing) /\ Selected.ok /\ cfg.needs_coherent_announcement_tag
    /\ IsSome(cfg.announcement_tag)
    /\ Selected.val.version # <<>>
    /\ Len(Selected.val.rust_releases) = 2
    /\ Cardinality(DistableVersions) = 2

\* ---- C30: what an announcement is about ----

\* C30: an AnnouncementTag select_tag returns has exactly one of version and
\* package set: the package when the tag given names a package, the version
\* when the tag given names a version alone or when the tag is inferred.
C30_VersionOrPackage ==
    (IsSome(announcing) /\ Selected.ok) =>
        /\ (Selected.val.version # <<>>) # (Selected.val.package # <<>>)
        /\ Selected.val.package # <<>> <=>
               (IsSome(cfg.announcement_tag) /\ TagPackage(GivenTag) # <<>>)

\* select_tag has accepted a tag that names a package and its version, and
\* returned the package without a version
C30_Witness ==
    /\ IsSome(announcing) /\ Selected.ok /\ IsSome(cfg.announcement_tag)
    /\ Selected.val.package # <<>> /\ Selected.val.version = <<>>
    /\ \E i \in 1..Len(workspace) :
           /\ Selected.val.package = <<i>>
           /\ GivenTag = workspace[i].name \o "-v" \o VersionToString(workspace[i].version)

\* select_tag has returned a version and no package: for a tag that names a
\* version
C30_WitnessVersion ==
    /\ IsSome(announcing) /\ Selected.ok /\ IsSome(cfg.announcement_tag)
    /\ Selected.val.package = <<>> /\ Selected.val.version # <<>>

\* select_tag has returned the placeholder version and no package
C30_WitnessPlaceholder ==
    /\ IsSome(announcing) /\ Selected.ok /\ IsNone(cfg.announcement_tag)
    /\ Selected.val.package = <<>> /\ Selected.val.version = <<FakeVersion>>

====
